---- MODULE Spec2Model ----
(***************************************************************************)
(* A model of the Japanese tatemae translator: the facade                  *)
(* JapaneseTatemaeTranslator.translate (src/translator.py), the four       *)
(* workflow nodes (src/processing/nodes.py) wired by build_workflow        *)
(* (src/processing/graph.py), and the lexicon (src/config/settings.py).    *)
(*                                                                         *)
(* Representation of Python values:                                        *)
(*   - a str is the sequence of its code points ("ja" is <<106, 97>>);     *)
(*   - None is the one-element sequence <<-1>>, which is no str;           *)
(*   - a float is held in hundredths (0.8 is 80, 0.0 is 0);                *)
(*   - a dict is a record; a missing key is a name outside its DOMAIN;     *)
(*   - the caller's input_text, which may be 5001 characters long, is held *)
(*     run-length encoded: [type |-> "str", runs |-> <<<<c, n>>, ...>>]    *)
(*     stands for the str that has n copies of code point c for each run   *)
(*     in turn, and [type |-> "NoneType", ...] for a value that is no str. *)
(***************************************************************************)
EXTENDS Integers, Sequences, FiniteSets, TLC

VARIABLES
    pc,        \* where the translate call stands: idle, a node name, end, returned
    api_key,   \* len(DEEPSEEK_API_KEY_CHAT), fixed at import time
    args,      \* the arguments of the translate call and its validated locals
    state,     \* the TranslationState the workflow threads through the nodes
    trace,     \* the nodes the workflow has run, in order
    calls,     \* the backend calls made so far, each with the node or provider
               \* method that made it and its outcome
    raised,    \* the exception translate has caught, or the one a provider
               \* method raises to its caller, or NoException
    result     \* the dict translate returns, or what a provider method
               \* returns to its caller, or NoResult

vars == <<pc, api_key, args, state, trace, calls, raised, result>>

None == <<-1>>

(***************************************************************************)
(* Python str operations on code-point sequences.                          *)
(***************************************************************************)

\* The characters with str.isspace(): the Unicode whitespace str.strip() removes.
Whitespace ==
    (9..13) \cup (28..32) \cup {133, 160, 5760, 8232, 8233, 8239, 8287, 12288}
        \cup (8192..8202)

IsSpace(c) == c \in Whitespace

\* s.strip(chars): drop the longest prefix and suffix made of characters in chars.
StripBy(s, chars) ==
    LET keep == {i \in 1..Len(s) : s[i] \notin chars}
    IN  IF keep = {} THEN <<>>
        ELSE LET first == CHOOSE i \in keep : \A j \in keep : i <= j
                 last  == CHOOSE i \in keep : \A j \in keep : j <= i
             IN  SubSeq(s, first, last)

\* s.strip()
Strip(s) == StripBy(s, Whitespace)

\* s.strip(ch) for a one-character argument
StripChar(s, ch) == StripBy(s, {ch})

\* s.startswith(p)
StartsWith(s, p) == Len(s) >= Len(p) /\ SubSeq(s, 1, Len(p)) = p

\* sub occurs in s at offset i (0-based)
OccursAt(s, sub, i) ==
    /\ i + Len(sub) <= Len(s)
    /\ \A j \in 1..Len(sub) : s[i + j] = sub[j]

\* sub in s
Contains(s, sub) == \E i \in 0..(Len(s) - Len(sub)) : OccursAt(s, sub, i)

\* s.find(sub, start): the least offset >= start where sub occurs, or -1
FindFrom(s, sub, start) ==
    LET hits == {i \in start..(Len(s) - Len(sub)) : OccursAt(s, sub, i)}
    IN  IF hits = {} THEN -1 ELSE CHOOSE i \in hits : \A j \in hits : i <= j

\* s.replace(old, new) for a non-empty old: every occurrence, left to right
RECURSIVE ReplaceFrom(_, _, _, _)
ReplaceFrom(s, old, new, start) ==
    LET at == FindFrom(s, old, start)
    IN  IF at = -1 THEN SubSeq(s, start + 1, Len(s))
        ELSE SubSeq(s, start + 1, at) \o new \o ReplaceFrom(s, old, new, at + Len(old))

Replace(s, old, new) == ReplaceFrom(s, old, new, 0)

\* s.split(sep) for a one-character sep
RECURSIVE SplitFrom(_, _, _)
SplitFrom(s, sep, start) ==
    LET at == FindFrom(s, <<sep>>, start)
    IN  IF at = -1 THEN <<SubSeq(s, start + 1, Len(s))>>
        ELSE <<SubSeq(s, start + 1, at)>> \o SplitFrom(s, sep, at + 1)

Split(s, sep) == SplitFrom(s, sep, 0)

\* s.split(sep, 1)[1] for a one-character sep that occurs in s
AfterFirst(s, sep) == SubSeq(s, FindFrom(s, <<sep>>, 0) + 2, Len(s))

(***************************************************************************)
(* The same operations on the run-length encoded input_text.               *)
(***************************************************************************)

\* isinstance(input_text, str)
IsInstanceStr(t) == t.type = "str"

\* len(input_text)
RECURSIVE RunsLen(_)
RunsLen(runs) ==
    IF runs = <<>> THEN 0 ELSE runs[1][2] + RunsLen(Tail(runs))

TextLen(t) == RunsLen(t.runs)

\* any(lo <= char <= hi for char in input_text)
AnyChar(t, lo, hi) == \E i \in 1..Len(t.runs) : lo <= t.runs[i][1] /\ t.runs[i][1] <= hi

\* input_text.strip() is the empty str
StripIsEmpty(t) == \A i \in 1..Len(t.runs) : IsSpace(t.runs[i][1])

\* The characters of the text with every run cut to at most n copies. A window
\* of n characters lies inside one run or starts or ends in it, so a str of n
\* characters occurs in the text exactly when it occurs in this str.
RECURSIVE CutRuns(_, _)
CutRuns(runs, n) ==
    IF runs = <<>> THEN <<>>
    ELSE LET k == IF runs[1][2] < n THEN runs[1][2] ELSE n
         IN  [i \in 1..k |-> runs[1][1]] \o CutRuns(Tail(runs), n)

\* str.lower() of one character: ASCII letters; kana, ideographs, digits and
\* punctuation have no case.
LowerChar(c) == IF 65 <= c /\ c <= 90 THEN c + 32 ELSE c

\* input_text.lower()
TextLower(t) ==
    [t EXCEPT !.runs = [i \in 1..Len(t.runs) |-> <<LowerChar(t.runs[i][1]), t.runs[i][2]>>]]

\* word in text
TextContains(t, word) == Contains(CutRuns(t.runs, Len(word)), word)

(***************************************************************************)
(* String literals of the source.                                          *)
(***************************************************************************)
business == <<98, 117, 115, 105, 110, 101, 115, 115>>   \* "business"
ultra_polite == <<117, 108, 116, 114, 97, 95, 112, 111, 108, 105, 116, 101>>   \* "ultra_polite"
casual == <<99, 97, 115, 117, 97, 108>>   \* "casual"
personal == <<112, 101, 114, 115, 111, 110, 97, 108>>   \* "personal"
recruiter == <<114, 101, 99, 114, 117, 105, 116, 101, 114>>   \* "recruiter"
ja == <<106, 97>>   \* "ja"
zh == <<122, 104>>   \* "zh"
en == <<101, 110>>   \* "en"
error == <<101, 114, 114, 111, 114>>   \* "error"
refusal == <<114, 101, 102, 117, 115, 97, 108>>   \* "refusal"
disagreement == <<100, 105, 115, 97, 103, 114, 101, 101, 109, 101, 110, 116>>   \* "disagreement"
delay == <<100, 101, 108, 97, 121>>   \* "delay"
disinterest == <<100, 105, 115, 105, 110, 116, 101, 114, 101, 115, 116>>   \* "disinterest"
criticism == <<99, 114, 105, 116, 105, 99, 105, 115, 109>>   \* "criticism"
neutral_polite == <<110, 101, 117, 116, 114, 97, 108, 95, 112, 111, 108, 105, 116, 101>>   \* "neutral_polite"
EmptyStr == <<>>   \* ""
\* "申し訳ございません。入力内容を確認してください。"
APOLOGY_INVALID_INPUT == <<30003, 12375, 35379, 12372, 12374, 12356, 12414, 12379, 12435, 12290, 20837, 21147, 20869, 23481, 12434, 30906, 35469, 12375, 12390, 12367, 12384, 12373, 12356, 12290>>
\* "申し訳ございません。現在処理できない状況です。"
APOLOGY_CANNOT_PROCESS == <<30003, 12375, 35379, 12372, 12374, 12356, 12414, 12379, 12435, 12290, 29694, 22312, 20966, 29702, 12391, 12365, 12394, 12356, 29366, 27841, 12391, 12377, 12290>>

\* x in list
InList(x, list) == \E i \in 1..Len(list) : list[i] = x

\* dict.get(key, default)
Get(d, key, default) == IF key \in DOMAIN d THEN d[key] ELSE default

\* The workflow merges the dict a node returns into the state.
Merge(d, update) ==
    [k \in DOMAIN d \cup DOMAIN update |-> IF k \in DOMAIN update THEN update[k] ELSE d[k]]

(***************************************************************************)
(* The facade: src/translator.py                                           *)
(***************************************************************************)
MAX_INPUT_LENGTH == 5000
MIN_INPUT_LENGTH == 1
VALID_LEVELS == <<business, ultra_polite, casual>>
VALID_CONTEXTS == <<business, personal, recruiter, None>>

\* str(e) of an exception: the message, with the type name or the length the
\* f-string of the source puts into it.
Description(msg, name, num) == [msg |-> msg, name |-> name, num |-> num]

NoException == [type |-> "", desc |-> Description("", "", 0)]

\* The InputValidationError _validate_input raises for the text, or NoException.
InputTextErrorOffByOne(input_text) ==
    IF ~IsInstanceStr(input_text) THEN
        [type |-> "InputValidationError",
         desc |-> Description("input_text must be a string, got ", input_text.type, 0)]
    ELSE IF TextLen(input_text) = 0 \/ StripIsEmpty(input_text) THEN
        [type |-> "InputValidationError",
         desc |-> Description("input_text cannot be empty or whitespace only", "", 0)]
    ELSE IF TextLen(input_text) >= MAX_INPUT_LENGTH THEN
        [type |-> "InputValidationError",
         desc |-> Description("input_text too long (maximum 5000 characters, got ", "",
                              TextLen(input_text))]
    ELSE NoException

InputTextError(input_text) ==
    IF ~IsInstanceStr(input_text) THEN
        [type |-> "InputValidationError",
         desc |-> Description("input_text must be a string, got ", input_text.type, 0)]
    ELSE IF TextLen(input_text) = 0 \/ StripIsEmpty(input_text) THEN
        [type |-> "InputValidationError",
         desc |-> Description("input_text cannot be empty or whitespace only", "", 0)]
    ELSE IF TextLen(input_text) < MIN_INPUT_LENGTH THEN
        [type |-> "InputValidationError",
         desc |-> Description("input_text too short (minimum 1 character)", "", 0)]
    ELSE IF TextLen(input_text) > MAX_INPUT_LENGTH THEN
        [type |-> "InputValidationError",
         desc |-> Description("input_text too long (maximum 5000 characters, got ", "",
                              TextLen(input_text))]
    ELSE NoException

\* validated_level of _validate_input
ValidatedLevelUnchecked(level) == level

ValidatedLevel(level) ==
    IF ~InList(level, VALID_LEVELS) THEN business ELSE level

\* validated_context of _validate_input
ValidatedContextUnchecked(context) == context

ValidatedContext(context) ==
    IF context # None /\ ~InList(context, VALID_CONTEXTS) THEN None ELSE context

\* initial_state of translate
InitialState(input_text, validated_level, validated_context) ==
    [input_text |-> input_text,
     level |-> validated_level,
     context |-> validated_context,
     intent |-> None,
     confidence |-> None,
     template |-> None,
     filled_template |-> None,
     tatemae_text |-> None,
     detected_language |-> None,
     intermediate_translation |-> None]

\* The dict translate returns when _validate_input raises.
RejectedResult(level, context, e) ==
    [tatemae_text |-> APOLOGY_INVALID_INPUT,
     intent |-> error,
     confidence |-> 0,
     detected_language |-> None,
     level |-> level,
     context |-> context,
     error |-> e.desc]

\* The dict translate returns when the workflow has run.
CompletedResultWithError(final_state, validated_level, validated_context) ==
    [tatemae_text |-> Get(final_state, "tatemae_text", EmptyStr),
     intent |-> Get(final_state, "intent", None),
     confidence |-> Get(final_state, "confidence", None),
     detected_language |-> Get(final_state, "detected_language", None),
     level |-> validated_level,
     context |-> validated_context,
     error |-> Description("", "", 0)]

CompletedResult(final_state, validated_level, validated_context) ==
    [tatemae_text |-> Get(final_state, "tatemae_text", EmptyStr),
     intent |-> Get(final_state, "intent", None),
     confidence |-> Get(final_state, "confidence", None),
     detected_language |-> Get(final_state, "detected_language", None),
     level |-> validated_level,
     context |-> validated_context]

\* The dict translate returns when running the workflow raises.
FailedResultNoDescription(level, context, e) ==
    [tatemae_text |-> APOLOGY_CANNOT_PROCESS,
     intent |-> error,
     confidence |-> 0,
     detected_language |-> None,
     level |-> level,
     context |-> context,
     error |-> Description("", "", 0)]

FailedResult(level, context, e) ==
    [tatemae_text |-> APOLOGY_CANNOT_PROCESS,
     intent |-> error,
     confidence |-> 0,
     detected_language |-> None,
     level |-> level,
     context |-> context,
     error |-> e.desc]

\* translate_simple, given the result of its translate call.
translate_simple(translate_result) == translate_result.tatemae_text

(***************************************************************************)
(* language_detector_node: src/processing/nodes.py                         *)
(***************************************************************************)
language_detector_node_ChineseFirst(st) ==
    LET input_text   == st.input_text
        has_hiragana == AnyChar(input_text, \H3040, \H309f)
        has_katakana == AnyChar(input_text, \H30a0, \H30ff)
        has_chinese  == AnyChar(input_text, \H4e00, \H9fff)
    IN  IF has_chinese THEN
            [detected_language |-> zh, intermediate_translation |-> None]
        ELSE IF has_hiragana \/ has_katakana THEN
            [detected_language |-> ja]
        ELSE
            [detected_language |-> en, intermediate_translation |-> None]

language_detector_node_WideKana(st) ==
    LET input_text   == st.input_text
        has_hiragana == AnyChar(input_text, \H3000, \H309f)
        has_katakana == AnyChar(input_text, \H30a0, \H3100)
        has_kanji    == AnyChar(input_text, \H4e00, \H9faf)
        has_chinese  == AnyChar(input_text, \H4e00, \H9fff)
    IN  IF has_hiragana \/ has_katakana \/ has_kanji THEN
            [detected_language |-> ja]
        ELSE IF has_chinese THEN
            [detected_language |-> zh, intermediate_translation |-> None]
        ELSE
            [detected_language |-> en, intermediate_translation |-> None]

language_detector_node(st) ==
    LET input_text   == st.input_text
        has_hiragana == AnyChar(input_text, \H3040, \H309f)
        has_katakana == AnyChar(input_text, \H30a0, \H30ff)
        has_kanji    == AnyChar(input_text, \H4e00, \H9faf)
        has_chinese  == AnyChar(input_text, \H4e00, \H9fff)
    IN  IF has_hiragana \/ has_katakana \/ has_kanji THEN
            [detected_language |-> ja]
        ELSE IF has_chinese THEN
            [detected_language |-> zh, intermediate_translation |-> None]
        ELSE
            [detected_language |-> en, intermediate_translation |-> None]

(***************************************************************************)
(* intent_detector_node: src/processing/nodes.py                           *)
(***************************************************************************)
INTENT_CATEGORIES ==
    <<refusal, disagreement, delay, disinterest, criticism, neutral_polite>>

REFUSAL_KEYWORDS ==
    << <<110, 111, 116, 32, 105, 110, 116, 101, 114, 101, 115, 116, 101, 100>>,   \* "not interested"
       <<100, 101, 99, 108, 105, 110, 101>>,   \* "decline"
       <<112, 97, 115, 115>>,   \* "pass"
       <<110, 111, 32, 116, 104, 97, 110, 107, 115>>,   \* "no thanks"
       <<114, 101, 106, 101, 99, 116>>,   \* "reject"
       <<33288, 21619, 12394, 12356>> >>   \* "興味ない"

DISAGREEMENT_KEYWORDS ==
    << <<100, 105, 115, 97, 103, 114, 101, 101>>,   \* "disagree"
       <<100, 111, 110, 39, 116, 32, 116, 104, 105, 110, 107>>,   \* "don't think"
       <<119, 114, 111, 110, 103>>,   \* "wrong"
       <<105, 110, 99, 111, 114, 114, 101, 99, 116>>,   \* "incorrect"
       <<21453, 23550>>,   \* "反対"
       <<36949, 12358>> >>   \* "違う"

DELAY_KEYWORDS ==
    << <<108, 97, 116, 101, 114>>,   \* "later"
       <<112, 111, 115, 116, 112, 111, 110, 101>>,   \* "postpone"
       <<100, 101, 108, 97, 121>>,   \* "delay"
       <<99, 97, 110, 39, 116, 32, 109, 101, 101, 116>>,   \* "can't meet"
       <<98, 117, 115, 121>>,   \* "busy"
       <<24460, 12391>>,   \* "後で"
       <<24310, 26399>> >>   \* "延期"

DISINTEREST_KEYWORDS ==
    << <<110, 111, 116, 32, 105, 110, 116, 101, 114, 101, 115, 116, 101, 100>>,   \* "not interested"
       <<100, 111, 110, 39, 116, 32, 119, 97, 110, 116>>,   \* "don't want"
       <<110, 111, 116, 32, 102, 111, 114, 32, 109, 101>>,   \* "not for me"
       <<33288, 21619, 12394, 12356>> >>   \* "興味ない"

CRITICISM_KEYWORDS ==
    << <<105, 110, 101, 102, 102, 105, 99, 105, 101, 110, 116>>,   \* "inefficient"
       <<98, 97, 100>>,   \* "bad"
       <<112, 111, 111, 114>>,   \* "poor"
       <<110, 101, 101, 100, 115, 32, 105, 109, 112, 114, 111, 118, 101, 109, 101, 110, 116>>,   \* "needs improvement"
       <<21839, 38988>>,   \* "問題"
       <<25913, 21892>> >>   \* "改善"

\* any(word in text_lower for word in words)
AnyWordIn(text_lower, words) ==
    \E i \in 1..Len(words) : TextContains(text_lower, words[i])

\* _keyword_based_intent_detection: <<intent, confidence>>
keyword_based_intent_detection(text) ==
    LET text_lower == TextLower(text)
    IN  IF AnyWordIn(text_lower, REFUSAL_KEYWORDS) THEN <<refusal, 70>>
        ELSE IF AnyWordIn(text_lower, DISAGREEMENT_KEYWORDS) THEN <<disagreement, 70>>
        ELSE IF AnyWordIn(text_lower, DELAY_KEYWORDS) THEN <<delay, 70>>
        ELSE IF AnyWordIn(text_lower, DISINTEREST_KEYWORDS) THEN <<disinterest, 70>>
        ELSE IF AnyWordIn(text_lower, CRITICISM_KEYWORDS) THEN <<criticism, 70>>
        ELSE <<neutral_polite, 60>>

\* The value of a str of decimal digits.
RECURSIVE DigitsValue(_)
DigitsValue(s) ==
    IF s = <<>> THEN 0 ELSE 10 * DigitsValue(SubSeq(s, 1, Len(s) - 1)) + (s[Len(s)] - 48)

IsDigits(s) == \A i \in 1..Len(s) : 48 <= s[i] /\ s[i] <= 57

\* float(s) for the decimal literals [sign] digits [. digits]: the value in
\* hundredths, or a ValueError for any other str (the backend contents of the
\* model hold no exponent, inf or nan form, and no more than two decimals).
ParseFloat(s) ==
    LET signed   == s # <<>> /\ s[1] \in {43, 45}
        unsigned == IF signed THEN Tail(s) ELSE s
        point    == FindFrom(unsigned, <<46>>, 0)
        whole    == IF point = -1 THEN unsigned ELSE SubSeq(unsigned, 1, point)
        decimals == IF point = -1 THEN <<>> ELSE SubSeq(unsigned, point + 2, Len(unsigned))
        two      == SubSeq(decimals \o <<48, 48>>, 1, 2)
        value    == 100 * DigitsValue(whole) + DigitsValue(two)
    IN  IF IsDigits(whole) /\ IsDigits(decimals) /\ Len(whole) + Len(decimals) > 0
        THEN [ValueError |-> FALSE, value |-> IF signed /\ s[1] = 45 THEN 0 - value ELSE value]
        ELSE [ValueError |-> TRUE, value |-> 0]

\* The loop over the lines of the response: <<intent, confidence>>
RECURSIVE ParseLines(_, _, _)
ParseLines(lines, intent, confidence) ==
    IF lines = <<>> THEN <<intent, confidence>>
    ELSE LET line == Head(lines)
         IN  IF StartsWith(line, <<99, 97, 116, 101, 103, 111, 114, 121, 58>>) THEN   \* "category:"
                 ParseLines(Tail(lines), Strip(AfterFirst(line, 58)), confidence)
             ELSE IF StartsWith(line, <<99, 111, 110, 102, 105, 100, 101, 110, 99, 101, 58>>) THEN   \* "confidence:"
                 LET parsed == ParseFloat(Strip(AfterFirst(line, 58)))
                 IN  ParseLines(Tail(lines), intent,
                                IF parsed.ValueError THEN 80 ELSE parsed.value)
             ELSE ParseLines(Tail(lines), intent, confidence)

\* The "Validate intent" step.
ValidateIntentUnchecked(intent) == intent

ValidateIntent(intent) ==
    IF ~InList(intent, INTENT_CATEGORIES) THEN neutral_polite ELSE intent

\* DeepSeekProvider.is_available(): the client is built exactly when the key
\* is non-empty and longer than 20 characters.
is_available(key_len) ==
    LET client == IF key_len # 0 /\ key_len > 20 THEN "OpenAI" ELSE "None"
    IN  client # "None" /\ key_len > 20

ClientConfiguredFrom20(key_len) == key_len # 0 /\ key_len # 0 /\ key_len >= 20

\* client and DEEPSEEK_API_KEY_CHAT and len(DEEPSEEK_API_KEY_CHAT) > 20, where
\* client is None exactly when the key is empty.
ClientConfigured(key_len) == key_len # 0 /\ key_len # 0 /\ key_len > 20

\* What client.chat.completions.create does in one call: it raises, or it
\* returns a response whose message content is a str or None.
BackendRaises == [raises |-> TRUE, content |-> None]
BackendReturns(content) == [raises |-> FALSE, content |-> content]

\* The node, given the outcome of the backend call it makes when the client is
\* configured. A None content makes .strip() raise inside the try block.
intent_detector_node(st, key_len, backend) ==
    LET input_text == st.input_text
        parsed     == ParseLines(Split(Strip(backend.content), 10), None, 80)
        detected   ==
            IF ClientConfigured(key_len) THEN
                IF backend.raises \/ backend.content = None
                THEN keyword_based_intent_detection(input_text)
                ELSE <<ValidateIntent(parsed[1]), parsed[2]>>
            ELSE keyword_based_intent_detection(input_text)
    IN  [intent |-> detected[1], confidence |-> detected[2]]

(***************************************************************************)
(* The lexicon: src/config/settings.py. TEMPLATES and SOFTENERS are dicts; *)
(* each is held as the sequence of its items in insertion order.           *)
(***************************************************************************)
TEMPLATES ==
    << \* "refusal"
       [intent |-> refusal, templates |-> <<
         \* 現在は{soft_reason}、今回は{neutral_action}させていただきます。
         <<29694, 22312, 12399, 123, 115, 111, 102, 116, 95, 114, 101, 97, 115, 111, 110, 125, 12289, 20170, 22238, 12399, 123, 110, 101, 117, 116, 114, 97, 108, 95, 97, 99, 116, 105, 111, 110, 125, 12373, 12379, 12390, 12356, 12383, 12384, 12365, 12414, 12377, 12290>>,
         \* 誠に恐縮ですが、現在{soft_reason}ため、{neutral_action}させていただければと存じます。
         <<35488, 12395, 24656, 32302, 12391, 12377, 12364, 12289, 29694, 22312, 123, 115, 111, 102, 116, 95, 114, 101, 97, 115, 111, 110, 125, 12383, 12417, 12289, 123, 110, 101, 117, 116, 114, 97, 108, 95, 97, 99, 116, 105, 111, 110, 125, 12373, 12379, 12390, 12356, 12383, 12384, 12369, 12428, 12400, 12392, 23384, 12376, 12414, 12377, 12290>>,
         \* {soft_reason}という状況でございまして、{neutral_action}させていただきたく存じます。
         <<123, 115, 111, 102, 116, 95, 114, 101, 97, 115, 111, 110, 125, 12392, 12356, 12358, 29366, 27841, 12391, 12372, 12374, 12356, 12414, 12375, 12390, 12289, 123, 110, 101, 117, 116, 114, 97, 108, 95, 97, 99, 116, 105, 111, 110, 125, 12373, 12379, 12390, 12356, 12383, 12384, 12365, 12383, 12367, 23384, 12376, 12414, 12377, 12290>>
       >>],
       \* "disagreement"
       [intent |-> disagreement, templates |-> <<
         \* {acknowledge}が、{soft_negation}と思っております。
         <<123, 97, 99, 107, 110, 111, 119, 108, 101, 100, 103, 101, 125, 12364, 12289, 123, 115, 111, 102, 116, 95, 110, 101, 103, 97, 116, 105, 111, 110, 125, 12392, 24605, 12387, 12390, 12362, 12426, 12414, 12377, 12290>>,
         \* {acknowledge}。ただ、{soft_negation}という見方もあるかもしれません。
         <<123, 97, 99, 107, 110, 111, 119, 108, 101, 100, 103, 101, 125, 12290, 12383, 12384, 12289, 123, 115, 111, 102, 116, 95, 110, 101, 103, 97, 116, 105, 111, 110, 125, 12392, 12356, 12358, 35211, 26041, 12418, 12354, 12427, 12363, 12418, 12375, 12428, 12414, 12379, 12435, 12290>>,
         \* ご意見も理解いたしますが、{soft_negation}と考えております。
         <<12372, 24847, 35211, 12418, 29702, 35299, 12356, 12383, 12375, 12414, 12377, 12364, 12289, 123, 115, 111, 102, 116, 95, 110, 101, 103, 97, 116, 105, 111, 110, 125, 12392, 32771, 12360, 12390, 12362, 12426, 12414, 12377, 12290>>
       >>],
       \* "delay"
       [intent |-> delay, templates |-> <<
         \* 現時点では{soft_constraint}ため、{future_intent}。
         <<29694, 26178, 28857, 12391, 12399, 123, 115, 111, 102, 116, 95, 99, 111, 110, 115, 116, 114, 97, 105, 110, 116, 125, 12383, 12417, 12289, 123, 102, 117, 116, 117, 114, 101, 95, 105, 110, 116, 101, 110, 116, 125, 12290>>,
         \* 現在{soft_constraint}という状況でして、{future_intent}と考えております。
         <<29694, 22312, 123, 115, 111, 102, 116, 95, 99, 111, 110, 115, 116, 114, 97, 105, 110, 116, 125, 12392, 12356, 12358, 29366, 27841, 12391, 12375, 12390, 12289, 123, 102, 117, 116, 117, 114, 101, 95, 105, 110, 116, 101, 110, 116, 125, 12392, 32771, 12360, 12390, 12362, 12426, 12414, 12377, 12290>>,
         \* 申し訳ございませんが、{soft_constraint}ため、{future_intent}させていただければと思います。
         <<30003, 12375, 35379, 12372, 12374, 12356, 12414, 12379, 12435, 12364, 12289, 123, 115, 111, 102, 116, 95, 99, 111, 110, 115, 116, 114, 97, 105, 110, 116, 125, 12383, 12417, 12289, 123, 102, 117, 116, 117, 114, 101, 95, 105, 110, 116, 101, 110, 116, 125, 12373, 12379, 12390, 12356, 12383, 12384, 12369, 12428, 12400, 12392, 24605, 12356, 12414, 12377, 12290>>
       >>],
       \* "criticism"
       [intent |-> criticism, templates |-> <<
         \* もう少し{neutral_term}の余地があるかもしれません。
         <<12418, 12358, 23569, 12375, 123, 110, 101, 117, 116, 114, 97, 108, 95, 116, 101, 114, 109, 125, 12398, 20313, 22320, 12364, 12354, 12427, 12363, 12418, 12375, 12428, 12414, 12379, 12435, 12290>>,
         \* {neutral_term}について、改善の余地があるかもしれないと感じました。
         <<123, 110, 101, 117, 116, 114, 97, 108, 95, 116, 101, 114, 109, 125, 12395, 12388, 12356, 12390, 12289, 25913, 21892, 12398, 20313, 22320, 12364, 12354, 12427, 12363, 12418, 12375, 12428, 12394, 12356, 12392, 24863, 12376, 12414, 12375, 12383, 12290>>,
         \* 今後{neutral_term}を検討いただけますと幸いです。
         <<20170, 24460, 123, 110, 101, 117, 116, 114, 97, 108, 95, 116, 101, 114, 109, 125, 12434, 26908, 35342, 12356, 12383, 12384, 12369, 12414, 12377, 12392, 24184, 12356, 12391, 12377, 12290>>
       >>],
       \* "disinterest"
       [intent |-> disinterest, templates |-> <<
         \* {interest_phrase}。今回は{reference_action}。
         <<123, 105, 110, 116, 101, 114, 101, 115, 116, 95, 112, 104, 114, 97, 115, 101, 125, 12290, 20170, 22238, 12399, 123, 114, 101, 102, 101, 114, 101, 110, 99, 101, 95, 97, 99, 116, 105, 111, 110, 125, 12290>>,
         \* 貴重な情報をありがとうございます。{interest_phrase}が、今回は{reference_action}させていただきます。
         <<36020, 37325, 12394, 24773, 22577, 12434, 12354, 12426, 12364, 12392, 12358, 12372, 12374, 12356, 12414, 12377, 12290, 123, 105, 110, 116, 101, 114, 101, 115, 116, 95, 112, 104, 114, 97, 115, 101, 125, 12364, 12289, 20170, 22238, 12399, 123, 114, 101, 102, 101, 114, 101, 110, 99, 101, 95, 97, 99, 116, 105, 111, 110, 125, 12373, 12379, 12390, 12356, 12383, 12384, 12365, 12414, 12377, 12290>>,
         \* {interest_phrase}。ただ、現在は{reference_action}という状況でございます。
         <<123, 105, 110, 116, 101, 114, 101, 115, 116, 95, 112, 104, 114, 97, 115, 101, 125, 12290, 12383, 12384, 12289, 29694, 22312, 12399, 123, 114, 101, 102, 101, 114, 101, 110, 99, 101, 95, 97, 99, 116, 105, 111, 110, 125, 12392, 12356, 12358, 29366, 27841, 12391, 12372, 12374, 12356, 12414, 12377, 12290>>
       >>],
       \* "neutral_polite"
       [intent |-> neutral_polite, templates |-> <<
         \* 承知いたしました。{polite_acknowledgment}。
         <<25215, 30693, 12356, 12383, 12375, 12414, 12375, 12383, 12290, 123, 112, 111, 108, 105, 116, 101, 95, 97, 99, 107, 110, 111, 119, 108, 101, 100, 103, 109, 101, 110, 116, 125, 12290>>,
         \* ご連絡ありがとうございます。{polite_acknowledgment}。
         <<12372, 36899, 32097, 12354, 12426, 12364, 12392, 12358, 12372, 12374, 12356, 12414, 12377, 12290, 123, 112, 111, 108, 105, 116, 101, 95, 97, 99, 107, 110, 111, 119, 108, 101, 100, 103, 109, 101, 110, 116, 125, 12290>>,
         \* かしこまりました。{polite_acknowledgment}させていただきます。
         <<12363, 12375, 12371, 12414, 12426, 12414, 12375, 12383, 12290, 123, 112, 111, 108, 105, 116, 101, 95, 97, 99, 107, 110, 111, 119, 108, 101, 100, 103, 109, 101, 110, 116, 125, 12373, 12379, 12390, 12356, 12383, 12384, 12365, 12414, 12377, 12290>>
       >>] >>

SOFTENERS ==
    << \* "soft_reason"
       [placeholder |-> <<115, 111, 102, 116, 95, 114, 101, 97, 115, 111, 110>>, options |-> <<
         \* 別のテーマに注力しており
         <<21029, 12398, 12486, 12540, 12510, 12395, 27880, 21147, 12375, 12390, 12362, 12426>>,
         \* 他の案件を優先しておりまして
         <<20182, 12398, 26696, 20214, 12434, 20778, 20808, 12375, 12390, 12362, 12426, 12414, 12375, 12390>>,
         \* スケジュールの都合上
         <<12473, 12465, 12472, 12517, 12540, 12523, 12398, 37117, 21512, 19978>>,
         \* 現在の体制では
         <<29694, 22312, 12398, 20307, 21046, 12391, 12399>>,
         \* 諸般の事情により
         <<35576, 33324, 12398, 20107, 24773, 12395, 12424, 12426>>
       >>],
       \* "neutral_action"
       [placeholder |-> <<110, 101, 117, 116, 114, 97, 108, 95, 97, 99, 116, 105, 111, 110>>, options |-> <<
         \* 情報として参考にさせていただきます
         <<24773, 22577, 12392, 12375, 12390, 21442, 32771, 12395, 12373, 12379, 12390, 12356, 12383, 12384, 12365, 12414, 12377>>,
         \* 見送らせていただきます
         <<35211, 36865, 12425, 12379, 12390, 12356, 12383, 12384, 12365, 12414, 12377>>,
         \* 今後の参考とさせていただきます
         <<20170, 24460, 12398, 21442, 32771, 12392, 12373, 12379, 12390, 12356, 12383, 12384, 12365, 12414, 12377>>,
         \* お断りさせていただきます
         <<12362, 26029, 12426, 12373, 12379, 12390, 12356, 12383, 12384, 12365, 12414, 12377>>,
         \* 辞退させていただきます
         <<36766, 36864, 12373, 12379, 12390, 12356, 12383, 12384, 12365, 12414, 12377>>
       >>],
       \* "acknowledge"
       [placeholder |-> <<97, 99, 107, 110, 111, 119, 108, 101, 100, 103, 101>>, options |-> <<
         \* おっしゃることはわかります
         <<12362, 12387, 12375, 12419, 12427, 12371, 12392, 12399, 12431, 12363, 12426, 12414, 12377>>,
         \* ご意見ごもっともです
         <<12372, 24847, 35211, 12372, 12418, 12387, 12392, 12418, 12391, 12377>>,
         \* そのお考えも理解できます
         <<12381, 12398, 12362, 32771, 12360, 12418, 29702, 35299, 12391, 12365, 12414, 12377>>,
         \* 確かにそういう見方もあります
         <<30906, 12363, 12395, 12381, 12358, 12356, 12358, 35211, 26041, 12418, 12354, 12426, 12414, 12377>>
       >>],
       \* "soft_negation"
       [placeholder |-> <<115, 111, 102, 116, 95, 110, 101, 103, 97, 116, 105, 111, 110>>, options |-> <<
         \* 少し異なる見方をしております
         <<23569, 12375, 30064, 12394, 12427, 35211, 26041, 12434, 12375, 12390, 12362, 12426, 12414, 12377>>,
         \* 別の観点から検討が必要かもしれません
         <<21029, 12398, 35251, 28857, 12363, 12425, 26908, 35342, 12364, 24517, 35201, 12363, 12418, 12375, 12428, 12414, 12379, 12435>>,
         \* もう少し慎重に考えたいと思っております
         <<12418, 12358, 23569, 12375, 24910, 37325, 12395, 32771, 12360, 12383, 12356, 12392, 24605, 12387, 12390, 12362, 12426, 12414, 12377>>,
         \* 若干異なる印象を持っております
         <<33509, 24178, 30064, 12394, 12427, 21360, 35937, 12434, 25345, 12387, 12390, 12362, 12426, 12414, 12377>>
       >>],
       \* "soft_constraint"
       [placeholder |-> <<115, 111, 102, 116, 95, 99, 111, 110, 115, 116, 114, 97, 105, 110, 116>>, options |-> <<
         \* スケジュールが立て込んでおり
         <<12473, 12465, 12472, 12517, 12540, 12523, 12364, 31435, 12390, 36796, 12435, 12391, 12362, 12426>>,
         \* 調整が必要な状況でして
         <<35519, 25972, 12364, 24517, 35201, 12394, 29366, 27841, 12391, 12375, 12390>>,
         \* 確認事項がございまして
         <<30906, 35469, 20107, 38917, 12364, 12372, 12374, 12356, 12414, 12375, 12390>>,
         \* 社内調整中でして
         <<31038, 20869, 35519, 25972, 20013, 12391, 12375, 12390>>
       >>],
       \* "future_intent"
       [placeholder |-> <<102, 117, 116, 117, 114, 101, 95, 105, 110, 116, 101, 110, 116>>, options |-> <<
         \* 改めてご連絡させていただきます
         <<25913, 12417, 12390, 12372, 36899, 32097, 12373, 12379, 12390, 12356, 12383, 12384, 12365, 12414, 12377>>,
         \* 後日あらためてご相談させてください
         <<24460, 26085, 12354, 12425, 12383, 12417, 12390, 12372, 30456, 35527, 12373, 12379, 12390, 12367, 12384, 12373, 12356>>,
         \* 追って調整させていただきます
         <<36861, 12387, 12390, 35519, 25972, 12373, 12379, 12390, 12356, 12383, 12384, 12365, 12414, 12377>>,
         \* 別の機会にご相談できればと存じます
         <<21029, 12398, 27231, 20250, 12395, 12372, 30456, 35527, 12391, 12365, 12428, 12400, 12392, 23384, 12376, 12414, 12377>>
       >>],
       \* "neutral_term"
       [placeholder |-> <<110, 101, 117, 116, 114, 97, 108, 95, 116, 101, 114, 109>>, options |-> <<
         \* 検討
         <<26908, 35342>>,
         \* 精査
         <<31934, 26619>>,
         \* 調整
         <<35519, 25972>>,
         \* 改善
         <<25913, 21892>>,
         \* ブラッシュアップ
         <<12502, 12521, 12483, 12471, 12517, 12450, 12483, 12503>>
       >>],
       \* "interest_phrase"
       [placeholder |-> <<105, 110, 116, 101, 114, 101, 115, 116, 95, 112, 104, 114, 97, 115, 101>>, options |-> <<
         \* 興味深いお話です
         <<33288, 21619, 28145, 12356, 12362, 35441, 12391, 12377>>,
         \* 貴重な機会をいただきありがとうございます
         <<36020, 37325, 12394, 27231, 20250, 12434, 12356, 12383, 12384, 12365, 12354, 12426, 12364, 12392, 12358, 12372, 12374, 12356, 12414, 12377>>,
         \* 魅力的なご提案です
         <<39749, 21147, 30340, 12394, 12372, 25552, 26696, 12391, 12377>>,
         \* 大変光栄なお話です
         <<22823, 22793, 20809, 26628, 12394, 12362, 35441, 12391, 12377>>
       >>],
       \* "reference_action"
       [placeholder |-> <<114, 101, 102, 101, 114, 101, 110, 99, 101, 95, 97, 99, 116, 105, 111, 110>>, options |-> <<
         \* 情報として参考にさせていただきます
         <<24773, 22577, 12392, 12375, 12390, 21442, 32771, 12395, 12373, 12379, 12390, 12356, 12383, 12384, 12365, 12414, 12377>>,
         \* 今後の参考とさせていただきます
         <<20170, 24460, 12398, 21442, 32771, 12392, 12373, 12379, 12390, 12356, 12383, 12384, 12365, 12414, 12377>>,
         \* 別の機会にさせていただきたく存じます
         <<21029, 12398, 27231, 20250, 12395, 12373, 12379, 12390, 12356, 12383, 12384, 12365, 12383, 12367, 23384, 12376, 12414, 12377>>,
         \* 今回は見送らせていただきます
         <<20170, 22238, 12399, 35211, 36865, 12425, 12379, 12390, 12356, 12383, 12384, 12365, 12414, 12377>>
       >>],
       \* "polite_acknowledgment"
       [placeholder |-> <<112, 111, 108, 105, 116, 101, 95, 97, 99, 107, 110, 111, 119, 108, 101, 100, 103, 109, 101, 110, 116>>, options |-> <<
         \* 対応させていただきます
         <<23550, 24540, 12373, 12379, 12390, 12356, 12383, 12384, 12365, 12414, 12377>>,
         \* 確認させていただきます
         <<30906, 35469, 12373, 12379, 12390, 12356, 12383, 12384, 12365, 12414, 12377>>,
         \* 検討させていただきます
         <<26908, 35342, 12373, 12379, 12390, 12356, 12383, 12384, 12365, 12414, 12377>>,
         \* 承りました
         <<25215, 12426, 12414, 12375, 12383>>
       >>] >>

(***************************************************************************)
(* tatemae_generator_node: src/processing/nodes.py                         *)
(***************************************************************************)

TemplatesGetFirstList(intent) ==
    LET hits == {i \in 1..Len(TEMPLATES) : TEMPLATES[i].intent = intent}
    IN  IF hits = {} THEN TEMPLATES[1].templates
        ELSE TEMPLATES[CHOOSE i \in hits : TRUE].templates

\* TEMPLATES.get(intent, TEMPLATES["neutral_polite"])
TemplatesGet(intent) ==
    LET hits == {i \in 1..Len(TEMPLATES) : TEMPLATES[i].intent = intent}
        dflt == CHOOSE i \in 1..Len(TEMPLATES) : TEMPLATES[i].intent = neutral_polite
    IN  IF hits = {} THEN TEMPLATES[dflt].templates
        ELSE TEMPLATES[CHOOSE i \in hits : TRUE].templates

BracedUnclosed(placeholder) == <<123>> \o placeholder

\* f"{{{placeholder}}}"
Braced(placeholder) == <<123>> \o placeholder \o <<125>>

\* The values filled_template can have after the loop over SOFTENERS.items()
\* has gone from the k-th item to the last, random.choice picking any option.
RECURSIVE FillFrom(_, _)
FillFrom(filled_template, k) ==
    IF k > Len(SOFTENERS) THEN {filled_template}
    ELSE LET token   == Braced(SOFTENERS[k].placeholder)
             options == SOFTENERS[k].options
         IN  IF Contains(filled_template, token)
             THEN UNION {FillFrom(Replace(filled_template, token, options[j]), k + 1) :
                         j \in 1..Len(options)}
             ELSE FillFrom(filled_template, k + 1)

\* The dicts the node can return, one for each outcome of its random choices.
tatemae_generator_node(st) ==
    LET intent    == st.intent
        templates == TemplatesGet(intent)
    IN  UNION {{[template |-> templates[i], filled_template |-> f] :
                f \in FillFrom(templates[i], 1)} : i \in 1..Len(templates)}

(***************************************************************************)
(* politeness_tuner_node: src/processing/nodes.py                          *)
(***************************************************************************)
SASETE_ITADAKIMASU == <<12373, 12379, 12390, 12356, 12383, 12384, 12365, 12414, 12377>>   \* させていただきます
ITASHIMASU == <<12356, 12383, 12375, 12414, 12377>>   \* いたします
GOZAIMASU == <<12372, 12374, 12356, 12414, 12377>>   \* ございます
TAME == <<12383, 12417>>   \* ため
TOIU_JOUKYOU == <<12392, 12356, 12358, 29366, 27841>>   \* という状況
DESHITE == <<12391, 12375, 12390>>   \* でして

VERB_ENDINGS == <<SASETE_ITADAKIMASU, ITASHIMASU, GOZAIMASU>>
PARTICLES == <<TAME, TOIU_JOUKYOU, DESHITE>>

\* How many copies of w stand in a row in s from offset pos on.
RECURSIVE Copies(_, _, _)
Copies(s, w, pos) ==
    IF OccursAt(s, w, pos) THEN 1 + Copies(s, w, pos + Len(w)) ELSE 0

\* re.sub(r'(A|B|C)(\1)+', r'\1', s) from offset pos on: at each offset the
\* first alternative that stands there at least twice in a row matches, with
\* all its copies, and one copy replaces them.
RECURSIVE SubRepeatedFrom(_, _, _)
SubRepeatedFrom(s, alts, pos) ==
    IF pos >= Len(s) THEN <<>>
    ELSE LET hits == {a \in 1..Len(alts) : Copies(s, alts[a], pos) >= 2}
         IN  IF hits = {} THEN <<s[pos + 1]>> \o SubRepeatedFrom(s, alts, pos + 1)
             ELSE LET a == CHOOSE x \in hits : \A y \in hits : x <= y
                  IN  alts[a] \o
                      SubRepeatedFrom(s, alts, pos + Copies(s, alts[a], pos) * Len(alts[a]))

SubRepeated(s, alts) == SubRepeatedFrom(s, alts, 0)

\* re.sub(r'(A|B|C)(A|B|C)', r'\1', s) from offset pos on: at each offset the
\* first alternative that stands there with any alternative right after it
\* matches together with that one, and the first of the two replaces them.
RECURSIVE SubPairFrom(_, _, _)
SubPairFrom(s, alts, pos) ==
    IF pos >= Len(s) THEN <<>>
    ELSE LET followers(a) == {b \in 1..Len(alts) : OccursAt(s, alts[b], pos + Len(alts[a]))}
             hits == {a \in 1..Len(alts) : OccursAt(s, alts[a], pos) /\ followers(a) # {}}
         IN  IF hits = {} THEN <<s[pos + 1]>> \o SubPairFrom(s, alts, pos + 1)
             ELSE LET a == CHOOSE x \in hits : \A y \in hits : x <= y
                      b == CHOOSE x \in followers(a) : \A y \in followers(a) : x <= y
                  IN  alts[a] \o SubPairFrom(s, alts, pos + Len(alts[a]) + Len(alts[b]))

SubPair(s, alts) == SubPairFrom(s, alts, 0)

\* The keys of level_descriptions.
LEVEL_DESCRIPTIONS == <<business, ultra_polite, casual>>

politeness_tuner_node_OverwritesTemplate(st, key_len, backend) ==
    LET filled_template == st.filled_template
        level           == Get(st, "level", business)
        stripped        == Strip(backend.content)
        unquoted        ==
            StripChar(StripChar(StripChar(StripChar(stripped, 34), 39), 12300), 12301)
        tatemae_text    ==
            IF ClientConfigured(key_len) THEN
                IF ~InList(level, LEVEL_DESCRIPTIONS) \/ backend.raises
                   \/ backend.content = None
                THEN filled_template
                ELSE unquoted
            ELSE SubPair(SubRepeated(filled_template, VERB_ENDINGS), PARTICLES)
    IN  [tatemae_text |-> tatemae_text, filled_template |-> tatemae_text]

politeness_tuner_node_CleanupOnError(st, key_len, backend) ==
    LET filled_template == st.filled_template
        level           == Get(st, "level", business)
        stripped        == Strip(backend.content)
        unquoted        ==
            StripChar(StripChar(StripChar(StripChar(stripped, 34), 39), 12300), 12301)
        cleaned         == SubPair(SubRepeated(filled_template, VERB_ENDINGS), PARTICLES)
        tatemae_text    ==
            IF ClientConfigured(key_len) THEN
                IF ~InList(level, LEVEL_DESCRIPTIONS) \/ backend.raises
                   \/ backend.content = None
                THEN cleaned
                ELSE unquoted
            ELSE cleaned
    IN  [tatemae_text |-> tatemae_text]

\* The node, given the outcome of the backend call it makes when the client is
\* configured. A level that is no key of level_descriptions and a None content
\* raise inside the try block, whose handler falls back to the filled template.
politeness_tuner_node(st, key_len, backend) ==
    LET filled_template == st.filled_template
        level           == Get(st, "level", business)
        stripped        == Strip(backend.content)
        unquoted        ==
            StripChar(StripChar(StripChar(StripChar(stripped, 34), 39), 12300), 12301)
        tatemae_text    ==
            IF ClientConfigured(key_len) THEN
                IF ~InList(level, LEVEL_DESCRIPTIONS) \/ backend.raises
                   \/ backend.content = None
                THEN filled_template
                ELSE unquoted
            ELSE SubPair(SubRepeated(filled_template, VERB_ENDINGS), PARTICLES)
    IN  [tatemae_text |-> tatemae_text]

(***************************************************************************)
(* The backend: what client.chat.completions.create can answer.            *)
(***************************************************************************)
IntentContents ==
    \* 'category: refusal\nconfidence: 0.95'
    { <<99, 97, 116, 101, 103, 111, 114, 121, 58, 32, 114, 101, 102, 117, 115, 97, 108, 10, 99, 111, 110, 102, 105, 100, 101, 110, 99, 101, 58, 32, 48, 46, 57, 53>>,
    \* 'category: invalid_intent\nconfidence: 0.9'
      <<99, 97, 116, 101, 103, 111, 114, 121, 58, 32, 105, 110, 118, 97, 108, 105, 100, 95, 105, 110, 116, 101, 110, 116, 10, 99, 111, 110, 102, 105, 100, 101, 110, 99, 101, 58, 32, 48, 46, 57>>,
    \* 'confidence: 0.9'
      <<99, 111, 110, 102, 105, 100, 101, 110, 99, 101, 58, 32, 48, 46, 57>>,
    \* 'category: criticism\nconfidence: high'
      <<99, 97, 116, 101, 103, 111, 114, 121, 58, 32, 99, 114, 105, 116, 105, 99, 105, 115, 109, 10, 99, 111, 110, 102, 105, 100, 101, 110, 99, 101, 58, 32, 104, 105, 103, 104>>,
    \* 'Category: delay\nConfidence: 0.7'
      <<67, 97, 116, 101, 103, 111, 114, 121, 58, 32, 100, 101, 108, 97, 121, 10, 67, 111, 110, 102, 105, 100, 101, 110, 99, 101, 58, 32, 48, 46, 55>>,
    \* '  category:  disagreement \n'
      <<32, 32, 99, 97, 116, 101, 103, 111, 114, 121, 58, 32, 32, 100, 105, 115, 97, 103, 114, 101, 101, 109, 101, 110, 116, 32, 10>> }

RefineContents ==
    \* '承知いたしました。'
    { <<25215, 30693, 12356, 12383, 12375, 12414, 12375, 12383, 12290>>,
    \* '「承知いたしました。」'
      <<12300, 25215, 30693, 12356, 12383, 12375, 12414, 12375, 12383, 12290, 12301>>,
    \* ''
      <<>> }

IntentBackends ==
    {BackendRaises, BackendReturns(None)} \cup {BackendReturns(c) : c \in IntentContents}

RefineBackends ==
    {BackendRaises, BackendReturns(None)} \cup {BackendReturns(c) : c \in RefineContents}

(***************************************************************************)
(* The inputs of the model.                                                *)
(***************************************************************************)
Text(runs) == [type |-> "str", runs |-> runs]
NotAStr == [type |-> "NoneType", runs |-> <<>>]

\* translate(input_text, ...): None, "", "   ", "a", "BAD", a hiragana letter,
\* and "a" repeated MAX_INPUT_LENGTH and MAX_INPUT_LENGTH + 1 times.
InputTexts ==
    { NotAStr,
      Text(<<>>),
      Text(<< <<32, 3>> >>),
      Text(<< <<97, 1>> >>),
      Text(<< <<66, 1>>, <<65, 1>>, <<68, 1>> >>),
      Text(<< <<\H3042, 1>> >>),
      Text(<< <<97, MAX_INPUT_LENGTH>> >>),
      Text(<< <<97, MAX_INPUT_LENGTH + 1>> >>) }

\* "polite" is no politeness level, "academic" no context.
Levels == {business, ultra_polite, casual, <<112, 111, 108, 105, 116, 101>>}
Contexts == {business, personal, recruiter, None,
             <<97, 99, 97, 100, 101, 109, 105, 99>>}

\* len(DEEPSEEK_API_KEY_CHAT): no key, a key too short, a key long enough.
KeyLengths == {0, 20, 21}

\* What workflow.invoke can raise: its exception, with its description.
WorkflowExceptions ==
    { [type |-> "Exception", desc |-> Description("Workflow error", "", 0)],
      [type |-> "RuntimeError", desc |-> Description("", "", 0)] }

(***************************************************************************)
(* translate, step by step: the call validates and enters the workflow,    *)
(* the workflow runs the nodes along the edges of build_workflow, and the  *)
(* call returns the result.                                                *)
(***************************************************************************)
NoArgs ==
    [input_text |-> NotAStr, level |-> None, context |-> None,
     validated_level |-> None, validated_context |-> None]
NoState == <<>>
NoResult == <<>>

Init ==
    /\ pc = "idle"
    /\ api_key \in KeyLengths
    /\ args = NoArgs
    /\ state = NoState
    /\ trace = <<>>
    /\ calls = <<>>
    /\ raised = NoException
    /\ result = NoResult

\* translate up to workflow.invoke: lines 127-156 of translator.py
Translate(input_text, level, context) ==
    /\ pc = "idle"
    /\ LET e == InputTextError(input_text)
       IN  IF e # NoException THEN
               /\ args' = [input_text |-> input_text, level |-> level, context |-> context,
                           validated_level |-> None, validated_context |-> None]
               /\ raised' = e
               /\ result' = RejectedResult(level, context, e)
               /\ pc' = "returned"
               /\ UNCHANGED state
           ELSE
               /\ args' = [input_text |-> input_text, level |-> level, context |-> context,
                           validated_level |-> ValidatedLevel(level),
                           validated_context |-> ValidatedContext(context)]
               /\ state' = InitialState(input_text, ValidatedLevel(level),
                                        ValidatedContext(context))
               /\ pc' = "language_detector"
               /\ UNCHANGED <<raised, result>>
    /\ UNCHANGED <<api_key, trace, calls>>

LanguageDetectorSkipsIntent ==
    /\ pc = "language_detector"
    /\ state' = Merge(state, language_detector_node(state))
    /\ trace' = Append(trace, "language_detector")
    /\ pc' = "tatemae_generator"
    /\ UNCHANGED <<api_key, args, calls, raised, result>>

\* The entry point of the workflow and its edge to intent_detector.
LanguageDetector ==
    /\ pc = "language_detector"
    /\ state' = Merge(state, language_detector_node(state))
    /\ trace' = Append(trace, "language_detector")
    /\ pc' = "intent_detector"
    /\ UNCHANGED <<api_key, args, calls, raised, result>>

\* intent_detector and its edge to tatemae_generator. The backend is called
\* only when the client is configured.
IntentDetector ==
    /\ pc = "intent_detector"
    /\ \E backend \in IntentBackends :
          /\ state' = Merge(state, intent_detector_node(state, api_key, backend))
          /\ calls' = IF ClientConfigured(api_key)
                      THEN Append(calls, [node |-> "intent_detector", outcome |-> backend])
                      ELSE calls
    /\ trace' = Append(trace, "intent_detector")
    /\ pc' = "tatemae_generator"
    /\ UNCHANGED <<api_key, args, raised, result>>

\* tatemae_generator and its edge to politeness_tuner.
TatemaeGenerator ==
    /\ pc = "tatemae_generator"
    /\ \E out \in tatemae_generator_node(state) : state' = Merge(state, out)
    /\ trace' = Append(trace, "tatemae_generator")
    /\ pc' = "politeness_tuner"
    /\ UNCHANGED <<api_key, args, calls, raised, result>>

\* politeness_tuner and its edge to END.
PolitenessTuner ==
    /\ pc = "politeness_tuner"
    /\ \E backend \in RefineBackends :
          /\ state' = Merge(state, politeness_tuner_node(state, api_key, backend))
          /\ calls' = IF ClientConfigured(api_key)
                      THEN Append(calls, [node |-> "politeness_tuner", outcome |-> backend])
                      ELSE calls
    /\ trace' = Append(trace, "politeness_tuner")
    /\ pc' = "end"
    /\ UNCHANGED <<api_key, args, raised, result>>

\* workflow.invoke returns final_state and translate returns the result:
\* lines 160-173 of translator.py
Return ==
    /\ pc = "end"
    /\ result' = CompletedResult(state, args.validated_level, args.validated_context)
    /\ pc' = "returned"
    /\ UNCHANGED <<api_key, args, state, trace, calls, raised>>

\* workflow.invoke raises, before a node or after the last one, and translate
\* returns the error result: lines 175-185 of translator.py. The state of the
\* failed run is gone with it.
WorkflowRaises ==
    /\ pc \in {"language_detector", "intent_detector", "tatemae_generator",
               "politeness_tuner", "end"}
    /\ \E e \in WorkflowExceptions :
          /\ raised' = e
          /\ result' = FailedResult(args.level, args.context, e)
    /\ state' = NoState
    /\ pc' = "returned"
    /\ UNCHANGED <<api_key, args, trace, calls>>

Next ==
    \/ \E input_text \in InputTexts, level \in Levels, context \in Contexts :
          Translate(input_text, level, context)
    \/ LanguageDetector
    \/ IntentDetector
    \/ TatemaeGenerator
    \/ PolitenessTuner
    \/ Return
    \/ WorkflowRaises

Spec == Init /\ [][Next]_vars

(***************************************************************************)
(* language_detector_node called on its own, on any short text, the empty  *)
(* one included.                                                           *)
(***************************************************************************)
MaxTextLen == 2

\* Boundaries of the ranges the node tests, their neighbours, a space, the
\* ideographic space and a Latin letter.
DetectorChars ==
    {32, 97, \H3000, \H303f, \H3040, \H309f, \H30a0, \H30ff, \H3100,
     \H4dff, \H4e00, \H9faf, \H9fb0, \H9fff, \Ha000}

DetectorTexts ==
    UNION {{Text([i \in 1..n |-> <<chars[i], 1>>]) : chars \in [1..n -> DetectorChars]} :
           n \in 0..MaxTextLen}

InitDetector ==
    /\ pc = "language_detector"
    /\ api_key \in KeyLengths
    /\ args = NoArgs
    /\ state \in {InitialState(t, business, None) : t \in DetectorTexts}
    /\ trace = <<>>
    /\ calls = <<>>
    /\ raised = NoException
    /\ result = NoResult

NextDetector == LanguageDetector

SpecDetector == InitDetector /\ [][NextDetector]_vars

(***************************************************************************)
(* tatemae_generator_node called on its own, on a state with any of the    *)
(* six intents, an intent that is no key of TEMPLATES, or None.            *)
(***************************************************************************)
GeneratorIntents ==
    {INTENT_CATEGORIES[i] : i \in 1..Len(INTENT_CATEGORIES)}
        \cup {error, <<105, 110, 118, 97, 108, 105, 100, 95, 105, 110, 116, 101, 110, 116>>, None}

InitGenerator ==
    /\ pc = "tatemae_generator"
    /\ api_key \in KeyLengths
    /\ args = NoArgs
    /\ state \in {Merge(InitialState(Text(<< <<97, 1>> >>), business, None),
                        [intent |-> i, confidence |-> 80]) : i \in GeneratorIntents}
    /\ trace = <<>>
    /\ calls = <<>>
    /\ raised = NoException
    /\ result = NoResult

NextGenerator == TatemaeGenerator

SpecGenerator == InitGenerator /\ [][NextGenerator]_vars

(***************************************************************************)
(* FallbackProvider: src/providers/fallback.py                             *)
(***************************************************************************)

FallbackProvider_detect_intent_DisinterestFirst(text) ==
    LET text_lower == TextLower(text)
    IN  IF AnyWordIn(text_lower, DISINTEREST_KEYWORDS) THEN <<disinterest, 70>>
        ELSE IF AnyWordIn(text_lower, REFUSAL_KEYWORDS) THEN <<refusal, 70>>
        ELSE IF AnyWordIn(text_lower, DISAGREEMENT_KEYWORDS) THEN <<disagreement, 70>>
        ELSE IF AnyWordIn(text_lower, DELAY_KEYWORDS) THEN <<delay, 70>>
        ELSE IF AnyWordIn(text_lower, CRITICISM_KEYWORDS) THEN <<criticism, 70>>
        ELSE <<neutral_polite, 60>>

\* detect_intent: <<intent, confidence>>. Its five keyword lists are those of
\* _keyword_based_intent_detection, word for word.
FallbackProvider_detect_intent(text) ==
    LET text_lower == TextLower(text)
    IN  IF AnyWordIn(text_lower, REFUSAL_KEYWORDS) THEN <<refusal, 70>>
        ELSE IF AnyWordIn(text_lower, DISAGREEMENT_KEYWORDS) THEN <<disagreement, 70>>
        ELSE IF AnyWordIn(text_lower, DELAY_KEYWORDS) THEN <<delay, 70>>
        ELSE IF AnyWordIn(text_lower, DISINTEREST_KEYWORDS) THEN <<disinterest, 70>>
        ELSE IF AnyWordIn(text_lower, CRITICISM_KEYWORDS) THEN <<criticism, 70>>
        ELSE <<neutral_polite, 60>>

\* The alternative that stands in s at offset pos, as its index in alts, or 0.
\* No alternative of the patterns here is a prefix of another.
AltAt(s, alts, pos) ==
    LET hits == {a \in 1..Len(alts) : OccursAt(s, alts[a], pos)}
    IN  IF hits = {} THEN 0 ELSE CHOOSE x \in hits : \A y \in hits : x <= y

\* The alternatives that stand in a row in s from offset pos on, as indices.
RECURSIVE RunAt(_, _, _)
RunAt(s, alts, pos) ==
    LET a == AltAt(s, alts, pos)
    IN  IF a = 0 THEN <<>> ELSE <<a>> \o RunAt(s, alts, pos + Len(alts[a]))

RECURSIVE RunLen(_, _)
RunLen(alts, run) ==
    IF run = <<>> THEN 0 ELSE Len(alts[Head(run)]) + RunLen(alts, Tail(run))

\* re.sub(r'(A|B|C){3,}', r'\1', s) from offset pos on: a row of three or more
\* alternatives matches whole, and the group holds its last alternative.
RECURSIVE SubRunFrom(_, _, _)
SubRunFrom(s, alts, pos) ==
    IF pos >= Len(s) THEN <<>>
    ELSE LET run == RunAt(s, alts, pos)
         IN  IF Len(run) < 3 THEN <<s[pos + 1]>> \o SubRunFrom(s, alts, pos + 1)
             ELSE alts[run[Len(run)]] \o SubRunFrom(s, alts, pos + RunLen(alts, run))

SubRun(s, alts) == SubRunFrom(s, alts, 0)

\* refine_text: the three substitutions, in the order of the source.
FallbackProvider_refine_text(input_text, filled_template, intent, level) ==
    CHOOSE text \in {SubRun(pairs, PARTICLES) :
                         pairs \in {SubPair(endings, PARTICLES) :
                                       endings \in {SubRepeated(filled_template, VERB_ENDINGS)}}} : TRUE

(***************************************************************************)
(* The FallbackProvider called on its own: detect_intent on texts made of  *)
(* keywords, refine_text on strings made of endings and particles and, as  *)
(* a caller may, on its own output.                                        *)
(***************************************************************************)
MaxParts == 3

\* "not interested", "DISAGREE", "later", "don't want", "bad", "hello", 興味ない
DetectWords ==
    { <<110, 111, 116, 32, 105, 110, 116, 101, 114, 101, 115, 116, 101, 100>>,
      <<68, 73, 83, 65, 71, 82, 69, 69>>,
      <<108, 97, 116, 101, 114>>,
      <<100, 111, 110, 39, 116, 32, 119, 97, 110, 116>>,
      <<98, 97, 100>>,
      <<104, 101, 108, 108, 111>>,
      <<33288, 21619, 12394, 12356>> }

\* The str of the parts put one after the other, sep between them.
RECURSIVE Join(_, _)
Join(parts, sep) ==
    IF parts = <<>> THEN <<>>
    ELSE IF Len(parts) = 1 THEN parts[1]
    ELSE parts[1] \o sep \o Join(Tail(parts), sep)

PartLists(parts) == UNION {[1..n -> parts] : n \in 0..MaxParts}

DetectTexts ==
    {LET s == Join(ws, <<32>>) IN Text([i \in 1..Len(s) |-> <<s[i], 1>>]) :
        ws \in PartLists(DetectWords)}

RefineTexts ==
    {Join(ps, <<>>) : ps \in PartLists({TAME, TOIU_JOUKYOU, DESHITE, ITASHIMASU, GOZAIMASU, <<97>>})}

InitFallback ==
    /\ pc = "fallback"
    /\ api_key \in KeyLengths
    /\ args \in {[op |-> "detect_intent", text |-> t] : t \in DetectTexts}
            \cup {[op |-> "refine_text", filled_template |-> s] : s \in RefineTexts}
    /\ state = NoState
    /\ trace = <<>>
    /\ calls = <<>>
    /\ raised = NoException
    /\ result = NoResult

\* provider.detect_intent(text)
FallbackDetectIntent ==
    /\ pc = "fallback"
    /\ args.op = "detect_intent"
    /\ result' = FallbackProvider_detect_intent(args.text)
    /\ pc' = "fallback_returned"
    /\ UNCHANGED <<api_key, args, state, trace, calls, raised>>

\* provider.refine_text(..., filled_template, ...), first on the argument and
\* then on the text the first call returned; trace holds the texts returned.
FallbackRefineText ==
    /\ pc = "fallback"
    /\ args.op = "refine_text"
    /\ LET filled_template == IF trace = <<>> THEN args.filled_template ELSE trace[Len(trace)]
       IN  trace' = Append(trace, FallbackProvider_refine_text(EmptyStr, filled_template,
                                                               neutral_polite, business))
    /\ pc' = IF Len(trace) = 1 THEN "fallback_returned" ELSE "fallback"
    /\ UNCHANGED <<api_key, args, state, calls, raised, result>>

NextFallback == FallbackDetectIntent \/ FallbackRefineText

SpecFallback == InitFallback /\ [][NextFallback]_vars

(***************************************************************************)
(* DeepSeekProvider: src/providers/deepseek.py                             *)
(***************************************************************************)

\* The exception classes retry_if_exception_type names.
TRANSIENT_ERRORS == {"RateLimitError", "APIConnectionError", "APITimeoutError"}

\* stop_after_attempt(3)
STOP_AFTER_ATTEMPT == 3

\* self.client, built in __init__ when the key is non-empty and longer than 20.
ClientBuilt(key_len) == key_len # 0 /\ key_len > 20

\* An exception of the backend, of the named class.
BackendError(type) ==
    [raises |-> TRUE, content |-> None,
     error |-> [type |-> type, desc |-> Description("backend error", type, 0)]]

ClientNotInitialized ==
    [type |-> "RuntimeError", desc |-> Description("DeepSeek client not initialized", "", 0)]

NoneHasNoStrip ==
    [type |-> "AttributeError",
     desc |-> Description("'NoneType' object has no attribute 'strip'", "", 0)]

\* One run of the body of _call_api, given what the backend does when called.
CallApiBody(key_len, backend) ==
    IF ~ClientBuilt(key_len)
    THEN [raises |-> TRUE, content |-> None, error |-> ClientNotInitialized]
    ELSE backend

\* The retry policy: whether attempt attempt_number, which ended as outcome,
\* is followed by another.
ShouldRetryOnceMore(attempt_number, outcome) ==
    /\ outcome.raises
    /\ outcome.error.type \in TRANSIENT_ERRORS
    /\ attempt_number < STOP_AFTER_ATTEMPT + 1

ShouldRetryAnyError(attempt_number, outcome) ==
    outcome.raises /\ attempt_number < STOP_AFTER_ATTEMPT

ShouldRetry(attempt_number, outcome) ==
    /\ outcome.raises
    /\ outcome.error.type \in TRANSIENT_ERRORS
    /\ attempt_number < STOP_AFTER_ATTEMPT

\* reraise=True: what _call_api raises when it stops on a failed attempt.
ReraisedAsRetryError(last_error) ==
    [type |-> "RetryError", desc |-> Description("RetryError", "", 0)]

Reraised(last_error) == last_error

\* What the method op of the provider does once _call_api has ended as
\* outcome: it raises error or returns value. detect_intent returns
\* <<intent, confidence>>, refine_text the text, _call_api the response.
ProviderMethod(op, outcome) ==
    IF outcome.raises THEN
        [raises |-> TRUE, error |-> Reraised(outcome.error), value |-> None]
    ELSE IF op = "_call_api" THEN
        [raises |-> FALSE, error |-> NoException, value |-> outcome]
    ELSE IF outcome.content = None THEN
        [raises |-> TRUE, error |-> NoneHasNoStrip, value |-> None]
    ELSE IF op = "detect_intent" THEN
        LET parsed == ParseLines(Split(Strip(outcome.content), 10), None, 80)
            intent == IF ~InList(parsed[1], INTENT_CATEGORIES) THEN neutral_polite ELSE parsed[1]
        IN  [raises |-> FALSE, error |-> NoException, value |-> <<intent, parsed[2]>>]
    ELSE
        LET unquoted ==
                CHOOSE text \in
                    {StripChar(c, 12301) :
                        c \in {StripChar(b, 12300) :
                                 b \in {StripChar(a, 39) :
                                          a \in {StripChar(stripped, 34) :
                                                   stripped \in {Strip(outcome.content)}}}}} : TRUE
        IN  [raises |-> FALSE, error |-> NoException, value |-> unquoted]

(***************************************************************************)
(* The pipeline with the provider layer: the intent and the refinement     *)
(* stage call the DeepSeekProvider when it is available and the            *)
(* FallbackProvider when it is not, and contain what the provider raises.  *)
(* The stages that call the provider are not among the sources; they are   *)
(* written from the specification (sections 4.2, 4.4 and 4.5).             *)
(***************************************************************************)

\* The intent stage, given how provider.detect_intent ended.
provider_intent_stage(ended) ==
    IF ended.raises THEN [intent |-> neutral_polite, confidence |-> 50]
    ELSE [intent |-> IF ~InList(ended.value[1], INTENT_CATEGORIES)
                     THEN neutral_polite ELSE ended.value[1],
          confidence |-> ended.value[2]]

\* The refinement stage, given how provider.refine_text ended.
provider_refine_stage(st, ended) ==
    IF ended.raises THEN [tatemae_text |-> st.filled_template]
    ELSE [tatemae_text |-> ended.value]

\* What the backend can do in one call made for op.
ProviderBackends(op) ==
    {BackendError(t) : t \in TRANSIENT_ERRORS \cup {"APIError"}}
        \cup {BackendReturns(None)}
        \cup IF op = "refine_text"
             THEN {BackendReturns(<<25215, 30693, 12356, 12383, 12375, 12414, 12375, 12383, 12290>>)}
             ELSE \* 'category: refusal\nconfidence: 0.95', 'category: criticism\nconfidence: 1.5'
                  {BackendReturns(<<99, 97, 116, 101, 103, 111, 114, 121, 58, 32, 114, 101, 102, 117, 115, 97, 108, 10, 99, 111, 110, 102, 105, 100, 101, 110, 99, 101, 58, 32, 48, 46, 57, 53>>),
                   BackendReturns(<<99, 97, 116, 101, 103, 111, 114, 121, 58, 32, 99, 114, 105, 116, 105, 99, 105, 115, 109, 10, 99, 111, 110, 102, 105, 100, 101, 110, 99, 101, 58, 32, 49, 46, 53>>)}

\* The backend calls made so far for op, in order.
Attempts(op) == SelectSeq(calls, LAMBDA c : c.node = op)

\* The intent stage calls its provider.
ProviderIntentStage ==
    /\ pc = "intent_detector"
    /\ IF is_available(api_key) THEN
           /\ pc' = "detect_intent"
           /\ UNCHANGED <<state, trace>>
       ELSE
           /\ state' = Merge(state, provider_intent_stage(
                  [raises |-> FALSE,
                   value |-> FallbackProvider_detect_intent(state.input_text)]))
           /\ trace' = Append(trace, "intent_detector")
           /\ pc' = "tatemae_generator"
    /\ UNCHANGED <<api_key, args, calls, raised, result>>

\* The refinement stage calls its provider.
ProviderRefineStage ==
    /\ pc = "politeness_tuner"
    /\ IF is_available(api_key) THEN
           /\ pc' = "refine_text"
           /\ UNCHANGED <<state, trace>>
       ELSE
           /\ state' = Merge(state, provider_refine_stage(state,
                  [raises |-> FALSE,
                   value |-> FallbackProvider_refine_text(state.input_text,
                                 state.filled_template, state.intent, state.level)]))
           /\ trace' = Append(trace, "politeness_tuner")
           /\ pc' = "end"
    /\ UNCHANGED <<api_key, args, calls, raised, result>>

\* A caller calls provider._call_api itself.
DirectCallApi ==
    /\ pc = "idle"
    /\ pc' = "_call_api"
    /\ UNCHANGED <<api_key, args, state, trace, calls, raised, result>>

\* One attempt of _call_api under its retry decorator, made for the method
\* pc names, the backend doing one of the things in backends. After the last attempt the method ends: raised holds what it
\* raises to its caller, result what it returns.
CallApiFrom(backends) ==
    /\ pc \in {"detect_intent", "refine_text", "_call_api"}
    /\ \E backend \in backends :
          LET outcome        == CallApiBody(api_key, backend)
              attempt_number == Len(Attempts(pc)) + 1
              ended          == ProviderMethod(pc, outcome)
          IN  /\ calls' = IF ClientBuilt(api_key)
                          THEN Append(calls, [node |-> pc, outcome |-> backend])
                          ELSE calls
              /\ IF ShouldRetry(attempt_number, outcome) THEN
                     UNCHANGED <<pc, raised, result>>
                 ELSE IF ended.raises THEN
                     /\ raised' = ended.error
                     /\ pc' = CASE pc = "detect_intent" -> "detect_intent_raised"
                                [] pc = "refine_text" -> "refine_text_raised"
                                [] OTHER -> "_call_api_raised"
                     /\ UNCHANGED result
                 ELSE
                     /\ result' = ended.value
                     /\ pc' = CASE pc = "detect_intent" -> "detect_intent_returned"
                                [] pc = "refine_text" -> "refine_text_returned"
                                [] OTHER -> "_call_api_returned"
                     /\ UNCHANGED raised
    /\ UNCHANGED <<api_key, args, state, trace>>

CallApi == CallApiFrom(ProviderBackends(pc))

\* The stage takes what its provider returned, or contains what it raised,
\* and the workflow goes on.
ProviderStageResume ==
    /\ pc \in {"detect_intent_returned", "detect_intent_raised",
               "refine_text_returned", "refine_text_raised"}
    /\ LET ended == [raises |-> pc \in {"detect_intent_raised", "refine_text_raised"},
                     value |-> result]
       IN  IF pc \in {"detect_intent_returned", "detect_intent_raised"} THEN
               /\ state' = Merge(state, provider_intent_stage(ended))
               /\ trace' = Append(trace, "intent_detector")
               /\ pc' = "tatemae_generator"
           ELSE
               /\ state' = Merge(state, provider_refine_stage(state, ended))
               /\ trace' = Append(trace, "politeness_tuner")
               /\ pc' = "end"
    /\ raised' = NoException
    /\ result' = NoResult
    /\ UNCHANGED <<api_key, args, calls>>

\* translate("BAD") on the pipeline with the provider layer.
NextProvider ==
    \/ Translate(Text(<< <<66, 1>>, <<65, 1>>, <<68, 1>> >>), business, None)
    \/ LanguageDetector
    \/ ProviderIntentStage
    \/ TatemaeGenerator
    \/ ProviderRefineStage
    \/ CallApi
    \/ ProviderStageResume
    \/ Return
    \/ DirectCallApi

SpecProvider == Init /\ [][NextProvider]_vars

(***************************************************************************)
(* translate called with the keyword argument fidelity, as                 *)
(* src/test_fidelity.py calls it, next to calls without it.                *)
(***************************************************************************)
high == <<104, 105, 103, 104>>
medium == <<109, 101, 100, 105, 117, 109>>
low == <<108, 111, 119>>

Fidelities == {high, medium, low}

\* translate() got an unexpected keyword argument 'fidelity'
UnexpectedKeyword ==
    [type |-> "TypeError",
     desc |-> Description("translate() got an unexpected keyword argument", "fidelity", 0)]

\* translate(input_text, level=level, context=context, fidelity=fidelity): the
\* signature has no such parameter, so the call raises before the body runs
\* and the exception goes to the caller.
TranslateFidelity(input_text, level, context, fidelity) ==
    /\ pc = "idle"
    /\ args' = [input_text |-> input_text, level |-> level, context |-> context,
                validated_level |-> None, validated_context |-> None,
                fidelity |-> fidelity]
    /\ raised' = UnexpectedKeyword
    /\ pc' = "raised"
    /\ UNCHANGED <<api_key, state, trace, calls, result>>

NextFidelity ==
    \/ \E fidelity \in Fidelities :
          TranslateFidelity(Text(<< <<66, 1>>, <<65, 1>>, <<68, 1>> >>), business, None, fidelity)
    \/ Translate(Text(<< <<66, 1>>, <<65, 1>>, <<68, 1>> >>), business, None)
    \/ LanguageDetector
    \/ IntentDetector
    \/ TatemaeGenerator
    \/ PolitenessTuner
    \/ Return

SpecFidelity == Init /\ [][NextFidelity]_vars

(***************************************************************************)
(* tatemae_generator_node and politeness_tuner_node called one after the   *)
(* other, on a state with any intent.                                      *)
(***************************************************************************)
NextStages == TatemaeGenerator \/ PolitenessTuner

SpecStages == InitGenerator /\ [][NextStages]_vars

(***************************************************************************)
(* The refinement node on backend responses wrapped in quotation marks:    *)
(* every content of up to MaxContentLen characters out of the four marks   *)
(* the node strips, a letter and a space.                                  *)
(***************************************************************************)
MaxContentLen == 3

\* '"', "'", '「', '」'
QuotationMarks == {34, 39, 12300, 12301}

ContentChars == QuotationMarks \cup {120, 32}

WrappedContents ==
    UNION {[1..n -> ContentChars] : n \in 0..MaxContentLen}

InitWrapped ==
    /\ pc = "tatemae_generator"
    /\ api_key = 21
    /\ args = NoArgs
    /\ state = Merge(InitialState(Text(<< <<97, 1>> >>), business, None),
                     [intent |-> neutral_polite, confidence |-> 80])
    /\ trace = <<>>
    /\ calls = <<>>
    /\ raised = NoException
    /\ result = NoResult

PolitenessTunerWrapped ==
    /\ pc = "politeness_tuner"
    /\ \E content \in WrappedContents :
          /\ state' = Merge(state, politeness_tuner_node(state, api_key, BackendReturns(content)))
          /\ calls' = Append(calls, [node |-> "politeness_tuner",
                                     outcome |-> BackendReturns(content)])
    /\ trace' = Append(trace, "politeness_tuner")
    /\ pc' = "end"
    /\ UNCHANGED <<api_key, args, raised, result>>

NextWrapped == TatemaeGenerator \/ PolitenessTunerWrapped

SpecWrapped == InitWrapped /\ [][NextWrapped]_vars

(***************************************************************************)
(* A translate call that runs to its end. translate is synchronous: once   *)
(* called, the calling thread goes from one step to the next, and a        *)
(* backend attempt returns or raises within the timeout of the client, so  *)
(* no step that can be taken is put off forever.                           *)
(***************************************************************************)
LiveInputs == {Text(<< <<66, 1>>, <<65, 1>>, <<68, 1>> >>), Text(<<>>)}

\* An attempt times out, fails for good, or answers '承知いたしました。'.
LiveBackends ==
    {BackendError("APITimeoutError"), BackendError("APIError"),
     BackendReturns(<<25215, 30693, 12356, 12383, 12375, 12414, 12375, 12383, 12290>>)}

CallApiLive == CallApiFrom(LiveBackends)

RunTranslate ==
    \/ WorkflowRaises
    \/ Return
    \/ LanguageDetector
    \/ ProviderIntentStage
    \/ TatemaeGenerator
    \/ ProviderRefineStage
    \/ CallApiLive
    \/ ProviderStageResume

NextLive ==
    \/ \E input_text \in LiveInputs : Translate(input_text, business, None)
    \/ RunTranslate

SpecLive == Init /\ [][NextLive]_vars /\ WF_vars(RunTranslate)

(***************************************************************************)
(* Two translate calls on one translator, each in its own thread. The      *)
(* variables hold one value per request, but for api_key: the client of    *)
(* the module and the compiled workflow are shared by the calls. A step is *)
(* a stage of one of the requests, so the stages of the two interleave in  *)
(* every order.                                                            *)
(***************************************************************************)
Requests == {1, 2}

\* translate("BAD", level="casual", context="recruiter") and
\* translate("あ", level="polite")
RequestCalls ==
    << [input_text |-> Text(<< <<66, 1>>, <<65, 1>>, <<68, 1>> >>),
        level |-> casual, context |-> recruiter],
       [input_text |-> Text(<< <<\H3042, 1>> >>),
        level |-> <<112, 111, 108, 105, 116, 101>>, context |-> None] >>

\* What the backend does when a stage calls it: it fails, or answers
\* 'confidence: 0.9' to the intent request and '「承知いたしました。」' to
\* the refinement request.
ConcurrentIntentBackends ==
    {BackendRaises,
     BackendReturns(<<99, 111, 110, 102, 105, 100, 101, 110, 99, 101, 58, 32, 48, 46, 57>>)}

ConcurrentRefineBackends ==
    {BackendRaises,
     BackendReturns(<<12300, 25215, 30693, 12356, 12383, 12375, 12414, 12375, 12383, 12290, 12301>>)}

StateSlotShared(r) == 1

\* The state a request's stages work on: initial_state is a local of the
\* call and workflow.invoke keeps the state of each invocation apart.
StateSlot(r) == r

InitConcurrent ==
    /\ pc = [r \in Requests |-> "idle"]
    /\ api_key \in KeyLengths
    /\ args = [r \in Requests |-> NoArgs]
    /\ state = [r \in Requests |-> NoState]
    /\ trace = [r \in Requests |-> <<>>]
    /\ calls = [r \in Requests |-> <<>>]
    /\ raised = [r \in Requests |-> NoException]
    /\ result = [r \in Requests |-> NoResult]

\* The step of request r to pc value next, its stage having run.
StageDone(r, stage, next) ==
    /\ trace' = [trace EXCEPT ![r] = Append(@, stage)]
    /\ pc' = [pc EXCEPT ![r] = next]

ConcurrentTranslate(r) ==
    /\ pc[r] = "idle"
    /\ LET call == RequestCalls[r]
           e    == InputTextError(call.input_text)
       IN  IF e # NoException THEN
               /\ args' = [args EXCEPT ![r] =
                              [input_text |-> call.input_text, level |-> call.level,
                               context |-> call.context,
                               validated_level |-> None, validated_context |-> None]]
               /\ raised' = [raised EXCEPT ![r] = e]
               /\ result' = [result EXCEPT ![r] = RejectedResult(call.level, call.context, e)]
               /\ pc' = [pc EXCEPT ![r] = "returned"]
               /\ UNCHANGED state
           ELSE
               /\ args' = [args EXCEPT ![r] =
                              [input_text |-> call.input_text, level |-> call.level,
                               context |-> call.context,
                               validated_level |-> ValidatedLevel(call.level),
                               validated_context |-> ValidatedContext(call.context)]]
               /\ state' = [state EXCEPT ![StateSlot(r)] =
                               InitialState(call.input_text, ValidatedLevel(call.level),
                                            ValidatedContext(call.context))]
               /\ pc' = [pc EXCEPT ![r] = "language_detector"]
               /\ UNCHANGED <<raised, result>>
    /\ UNCHANGED <<api_key, trace, calls>>

ConcurrentLanguageDetector(r) ==
    /\ pc[r] = "language_detector"
    /\ state' = [state EXCEPT ![StateSlot(r)] = Merge(@, language_detector_node(@))]
    /\ StageDone(r, "language_detector", "intent_detector")
    /\ UNCHANGED <<api_key, args, calls, raised, result>>

ConcurrentIntentDetector(r) ==
    /\ pc[r] = "intent_detector"
    /\ \E backend \in ConcurrentIntentBackends :
          /\ state' = [state EXCEPT ![StateSlot(r)] =
                          Merge(@, intent_detector_node(@, api_key, backend))]
          /\ calls' = IF ClientConfigured(api_key)
                      THEN [calls EXCEPT ![r] =
                               Append(@, [node |-> "intent_detector", outcome |-> backend])]
                      ELSE calls
    /\ StageDone(r, "intent_detector", "tatemae_generator")
    /\ UNCHANGED <<api_key, args, raised, result>>

ConcurrentTatemaeGenerator(r) ==
    /\ pc[r] = "tatemae_generator"
    /\ \E out \in tatemae_generator_node(state[StateSlot(r)]) :
          state' = [state EXCEPT ![StateSlot(r)] = Merge(@, out)]
    /\ StageDone(r, "tatemae_generator", "politeness_tuner")
    /\ UNCHANGED <<api_key, args, calls, raised, result>>

ConcurrentPolitenessTuner(r) ==
    /\ pc[r] = "politeness_tuner"
    /\ \E backend \in ConcurrentRefineBackends :
          /\ state' = [state EXCEPT ![StateSlot(r)] =
                          Merge(@, politeness_tuner_node(@, api_key, backend))]
          /\ calls' = IF ClientConfigured(api_key)
                      THEN [calls EXCEPT ![r] =
                               Append(@, [node |-> "politeness_tuner", outcome |-> backend])]
                      ELSE calls
    /\ StageDone(r, "politeness_tuner", "end")
    /\ UNCHANGED <<api_key, args, raised, result>>

ConcurrentReturn(r) ==
    /\ pc[r] = "end"
    /\ result' = [result EXCEPT ![r] =
                     CompletedResult(state[StateSlot(r)], args[r].validated_level,
                                     args[r].validated_context)]
    /\ pc' = [pc EXCEPT ![r] = "returned"]
    /\ UNCHANGED <<api_key, args, state, trace, calls, raised>>

NextConcurrent ==
    \E r \in Requests :
        \/ ConcurrentTranslate(r)
        \/ ConcurrentLanguageDetector(r)
        \/ ConcurrentIntentDetector(r)
        \/ ConcurrentTatemaeGenerator(r)
        \/ ConcurrentPolitenessTuner(r)
        \/ ConcurrentReturn(r)

SpecConcurrent == InitConcurrent /\ [][NextConcurrent]_vars

(***************************************************************************)
(* Properties.                                                             *)
(***************************************************************************)

\* What the call is known by once it has returned.
Returned  == pc = "returned"
Rejected  == pc # "idle" /\ raised.type = "InputValidationError"
Failed    == raised \in WorkflowExceptions
Completed == pc = "returned" /\ raised = NoException

\* The texts a call has to reject: no str, empty, whitespace only, or longer
\* than 5000 characters.
Rejectable(t) ==
    \/ t.type # "str"
    \/ TextLen(t) = 0
    \/ \A i \in 1..Len(t.runs) : IsSpace(t.runs[i][1])
    \/ TextLen(t) > 5000

LevelSet == {business, ultra_polite, casual}
ContextSet == {business, personal, recruiter, None}
IntentSet == {refusal, disagreement, delay, disinterest, criticism, neutral_polite}

\* The exception handler of the node ran: its backend call raised, or
\* returned no content.
Contained(node) ==
    \E i \in 1..Len(calls) :
        /\ calls[i].node = node
        /\ (calls[i].outcome.raises \/ calls[i].outcome.content = None)

\* C1: when running the workflow raises an exception for an accepted
\* request, translate catches it in the same step and returns the fixed
\* apology text, intent "error", confidence 0.0 and the description of the
\* exception in the error field.
C1_FailureBecomesErrorResult ==
    Failed =>
        /\ pc = "returned"
        /\ result.tatemae_text = APOLOGY_CANNOT_PROCESS
        /\ result.intent = error
        /\ result.confidence = 0
        /\ "error" \in DOMAIN result
        /\ result.error = raised.desc

C1_Witness ==
    /\ Returned
    /\ raised.type = "Exception"
    /\ trace = <<"language_detector", "intent_detector">>
    /\ result.intent = error

C3_CompletedLevel ==
    /\ Completed =>
          result.level = (IF args.level \in LevelSet THEN args.level ELSE business)
    /\ (pc # "idle" /\ ~Rejectable(args.input_text)) => ~Rejected

C3_Witness ==
    /\ Completed
    /\ args.level \notin LevelSet
    /\ result.level = business

\* C4: a completed call reports the requested context when it is business,
\* personal, recruiter or None, and None otherwise; a call with an acceptable
\* text is not rejected, whatever its context.
C4_CompletedContext ==
    /\ Completed =>
          result.context = (IF args.context \in ContextSet THEN args.context ELSE None)
    /\ (pc # "idle" /\ ~Rejectable(args.input_text)) => ~Rejected

C4_Witness ==
    /\ Completed
    /\ args.context \notin ContextSet
    /\ result.context = None

\* C5: a returned result has an error field exactly when its intent is
\* "error", which is exactly when the call was rejected or the workflow
\* raised; a call whose intent or refinement node handled a failure of its
\* own and that completed has neither.
C5_ErrorFieldIffErrorIntent ==
    Returned =>
        /\ ("error" \in DOMAIN result) <=> (result.intent = error)
        /\ (result.intent = error) <=> (Rejected \/ Failed)
        /\ (Completed /\ (Contained("intent_detector") \/ Contained("politeness_tuner")))
              => ("error" \notin DOMAIN result /\ result.intent # error)

C5_Witness ==
    /\ Completed
    /\ Contained("intent_detector")
    /\ Contained("politeness_tuner")
    /\ "error" \notin DOMAIN result
    /\ result.intent \in IntentSet

\* C6: every returned result, the error results of rejected and failed
\* calls included, reports a level of business, ultra_polite, casual: the
\* requested level when it is one of them and "business" otherwise.
C6_EveryResultLevel ==
    Returned =>
        /\ result.level \in LevelSet
        /\ result.level = (IF args.level \in LevelSet THEN args.level ELSE business)

\* The code points the language claims speak of: the Hiragana and Katakana
\* blocks U+3040..U+30FF, and the CJK ideographs U+4E00..U+9FFF.
HasKana(t) == \E i \in 1..Len(t.runs) : 12352 <= t.runs[i][1] /\ t.runs[i][1] <= 12543
HasIdeograph(t) == \E i \in 1..Len(t.runs) : 19968 <= t.runs[i][1] /\ t.runs[i][1] <= 40959

\* The language detector has run on state.input_text.
Detected == pc = "intent_detector"

\* C7: the detector answers "ja" for every text with a Hiragana or Katakana
\* code point, whatever else the text holds.
C7_KanaIsJapanese ==
    (Detected /\ HasKana(state.input_text)) => state.detected_language = ja

C7_Witness ==
    /\ Detected
    /\ HasKana(state.input_text)
    /\ HasIdeograph(state.input_text)
    /\ state.detected_language = ja

\* C8: the detector answers "zh" for every text with a CJK ideograph and no
\* Hiragana or Katakana code point.
C8_IdeographsWithoutKanaAreChinese ==
    (Detected /\ HasIdeograph(state.input_text) /\ ~HasKana(state.input_text))
        => state.detected_language = zh

\* C9: the detector answers "en" for every text with no kana and no CJK
\* ideograph, the empty and the whitespace-only text included; it answers
\* one of ja, zh, en for every text, and it can always take its step.
C9_OtherwiseEnglish ==
    /\ pc = "language_detector" => ENABLED LanguageDetector
    /\ Detected =>
          /\ state.detected_language \in {ja, zh, en}
          /\ (~HasKana(state.input_text) /\ ~HasIdeograph(state.input_text))
                => state.detected_language = en

C9_Witness ==
    /\ Detected
    /\ TextLen(state.input_text) = 2
    /\ \A i \in 1..Len(state.input_text.runs) : IsSpace(state.input_text.runs[i][1])
    /\ state.detected_language = en

\* The intent the backend answered in the call of the intent node: the
\* value of its last category line, None when it has none.
AnsweredIntent(call) == ParseLines(Split(Strip(call.outcome.content), 10), None, 80)[1]

AnsweredOutsideSet(call) ==
    /\ call.node = "intent_detector"
    /\ ~call.outcome.raises
    /\ call.outcome.content # None
    /\ AnsweredIntent(call) \notin IntentSet

\* C10: the intent of a completed call is one of the six categories; when
\* the backend answered an intent outside them, or no category line, the
\* state and the result hold neutral_polite and the result is no error.
C10_IntentInFixedSet ==
    /\ Completed => (result.intent \in IntentSet /\ "error" \notin DOMAIN result)
    /\ \A i \in 1..Len(calls) :
          AnsweredOutsideSet(calls[i]) =>
              /\ DOMAIN state # {} => state.intent = neutral_polite
              /\ Completed => result.intent = neutral_polite

C10_Witness ==
    /\ Completed
    /\ \E i \in 1..Len(calls) :
          AnsweredOutsideSet(calls[i]) /\ AnsweredIntent(calls[i]) = None
    /\ result.intent = neutral_polite

\* The backend call of a node raised.
BackendRaised(node) ==
    \E i \in 1..Len(calls) : calls[i].node = node /\ calls[i].outcome.raises

\* The intent node, the refinement node has run and its state is at hand.
IntentDone == pc \in {"tatemae_generator", "politeness_tuner", "end"} \/ Completed
TunerDone == pc = "end" \/ Completed

\* C13: when the backend call of the intent node raises, the node yields
\* intent neutral_polite with confidence 0.5, whatever the text, and the
\* workflow goes on to the template node.
C13_IntentFailureYieldsNeutralHalf ==
    (BackendRaised("intent_detector") /\ IntentDone) =>
        /\ state.intent = neutral_polite
        /\ state.confidence = 50

\* C14: when the backend call of the refinement node raises, the node
\* returns the filled template of the template node as it is, without the
\* cleanup, and the call that completes returns it with no error.
C14_RefinementFailureKeepsTemplate ==
    BackendRaised("politeness_tuner") =>
        /\ pc \in {"end", "returned"}
        /\ TunerDone => state.tatemae_text = state.filled_template
        /\ Completed =>
              /\ result.tatemae_text = state.filled_template
              /\ "error" \notin DOMAIN result
              /\ result.intent # error

C14_Witness ==
    /\ Completed
    /\ BackendRaised("politeness_tuner")
    /\ result.tatemae_text = state.filled_template
    /\ SubPair(SubRepeated(state.filled_template, VERB_ENDINGS), PARTICLES)
          # state.filled_template

\* C18: with no key, or a key of 20 characters or fewer, the provider is
\* unavailable, no backend call is made at any point of the translate call,
\* the intent is the one of the keyword rules, the text is the cleaned
\* filled template, and the call that completes returns no error.
C18_NoCredentialMeansLocalRules ==
    (pc # "idle" /\ api_key <= 20) =>
        /\ ~is_available(api_key)
        /\ calls = <<>>
        /\ IntentDone =>
              <<state.intent, state.confidence>>
                  = keyword_based_intent_detection(state.input_text)
        /\ TunerDone =>
              state.tatemae_text
                  = SubPair(SubRepeated(state.filled_template, VERB_ENDINGS), PARTICLES)
        /\ Completed => ("error" \notin DOMAIN result /\ result.intent # error)

C18_Witness ==
    /\ Completed
    /\ api_key = 20
    /\ calls = <<>>
    /\ state.intent = criticism
    /\ "error" \notin DOMAIN result

\* C20: translate_simple returns a non-empty str for every text translate
\* accepts, with or without a configured backend and whatever the backend
\* answers to the refinement.
C20_SimpleResultNotEmpty ==
    (Returned /\ ~Rejectable(args.input_text)) => translate_simple(result) # EmptyStr

\* C15: whatever the intent, the template chosen and the phrases chosen,
\* the filled template the generator returns has no "{" and no "}".
C15_NoPlaceholderLeft ==
    pc = "politeness_tuner" =>
        \A i \in 1..Len(state.filled_template) :
            state.filled_template[i] \notin {123, 125}

C15_Witness ==
    /\ pc = "politeness_tuner"
    /\ state.intent \notin IntentSet
    /\ \E i \in 1..Len(state.template) : state.template[i] = 123
    /\ \A i \in 1..Len(state.filled_template) : state.filled_template[i] \notin {123, 125}

\* The keyword groups in the order the claim gives them.
KeywordGroups ==
    << [intent |-> refusal,      words |-> REFUSAL_KEYWORDS],
       [intent |-> disagreement, words |-> DISAGREEMENT_KEYWORDS],
       [intent |-> delay,        words |-> DELAY_KEYWORDS],
       [intent |-> disinterest,  words |-> DISINTEREST_KEYWORDS],
       [intent |-> criticism,    words |-> CRITICISM_KEYWORDS] >>

GroupMatches(g, text) ==
    \E k \in 1..Len(KeywordGroups[g].words) :
        TextContains(TextLower(text), KeywordGroups[g].words[k])

\* C12: the fallback classifier returns, with confidence 0.7, the first of
\* refusal, disagreement, delay, disinterest, criticism that has a keyword
\* in the lower-cased text, and neutral_polite with 0.6 when none has; a
\* text with keywords of several groups gets the earliest of them.
C12_FirstMatchingGroup ==
    (pc = "fallback_returned" /\ args.op = "detect_intent") =>
        LET hits == {g \in 1..Len(KeywordGroups) : GroupMatches(g, args.text)}
        IN  /\ hits = {} => result = <<neutral_polite, 60>>
            /\ \A g \in hits :
                  (\A h \in hits : g <= h) => result = <<KeywordGroups[g].intent, 70>>

C12_Witness ==
    /\ pc = "fallback_returned"
    /\ args.op = "detect_intent"
    /\ GroupMatches(1, args.text)
    /\ GroupMatches(4, args.text)
    /\ GroupMatches(5, args.text)
    /\ result = <<refusal, 70>>

\* C19: refine_text of the fallback provider, called on a text it has
\* returned, returns that text unchanged.
C19_CleanupIdempotent ==
    (args.op = "refine_text" /\ Len(trace) = 2) => trace[2] = trace[1]

\* The provider methods a backend call can be made for.
ProviderOps == {"detect_intent", "refine_text", "_call_api"}

Transient(outcome) ==
    /\ outcome.raises
    /\ outcome.error.type \in {"RateLimitError", "APIConnectionError", "APITimeoutError"}

\* All three attempts made for op failed with a transient error.
Exhausted(op) ==
    /\ Len(Attempts(op)) = 3
    /\ \A k \in 1..3 : Transient(Attempts(op)[k].outcome)

\* C11: every classification that returns yields a confidence from 0 to 1:
\* detect_intent of the remote provider for every response of the backend,
\* and the stage that used the fallback provider for every text.
C11_ConfidenceInUnitInterval ==
    /\ pc = "detect_intent_returned" => (0 <= result[2] /\ result[2] <= 100)
    /\ (pc = "tatemae_generator" /\ calls = <<>>) =>
          (0 <= state.confidence /\ state.confidence <= 100)

\* C16: for one call of a provider method the backend is called at most 3
\* times, and a call follows another only when that one failed with a
\* transient error; _call_api returns the response of the attempt that
\* succeeded, and raises the error of an attempt that failed otherwise than
\* transiently, or for want of a client, without a further attempt.
C16_BoundedRetry ==
    /\ \A op \in ProviderOps :
          LET attempts == Attempts(op)
          IN  /\ Len(attempts) <= 3
              /\ \A k \in 1..(Len(attempts) - 1) : Transient(attempts[k].outcome)
              /\ pc = op => \A k \in 1..Len(attempts) : Transient(attempts[k].outcome)
    /\ pc = "_call_api_returned" =>
          LET attempts == Attempts("_call_api")
          IN  /\ attempts # <<>>
              /\ ~attempts[Len(attempts)].outcome.raises
              /\ result = attempts[Len(attempts)].outcome
    /\ pc = "_call_api_raised" =>
          LET attempts == Attempts("_call_api")
          IN  IF api_key <= 20
              THEN attempts = <<>> /\ raised.type = "RuntimeError"
              ELSE /\ attempts # <<>>
                   /\ attempts[Len(attempts)].outcome.raises
                   /\ raised = attempts[Len(attempts)].outcome.error
                   /\ (Transient(attempts[Len(attempts)].outcome) => Len(attempts) = 3)

C16_Witness ==
    /\ pc = "_call_api_returned"
    /\ Len(Attempts("_call_api")) = 3
    /\ Attempts("_call_api")[1].outcome.error.type = "RateLimitError"
    /\ Attempts("_call_api")[2].outcome.error.type = "APITimeoutError"
    /\ result.content # None

C21_FidelityReachesRefinement ==
    pc # "idle" =>
        LET fidelity == Get(args, "fidelity", medium)
        IN  /\ raised.type # "TypeError"
            /\ DOMAIN state # {} =>
                  ("fidelity" \in DOMAIN state /\ state.fidelity = fidelity)
            /\ \A i \in 1..Len(calls) :
                  calls[i].node = "politeness_tuner" =>
                      ("fidelity" \in DOMAIN calls[i] /\ calls[i].fidelity = fidelity)

\* ます, です, ございます, いたします, 存じます
PoliteForms ==
    { <<12414, 12377>>, <<12391, 12377>>, <<12372, 12374, 12356, 12414, 12377>>,
      <<12356, 12383, 12375, 12414, 12377>>, <<23384, 12376, 12414, 12377>> }

\* The refinement node has run without a configured client.
LocalTextDone == pc = "end" /\ api_key <= 20

\* C22: without a configured backend, whatever the intent, the template and
\* the phrases chosen, the final text holds at least one of the polite
\* forms ます, です, ございます, いたします, 存じます.
C22_LocalTextIsPolite ==
    LocalTextDone => \E form \in PoliteForms : Contains(state.tatemae_text, form)

\* させていただきます, いたします, ございます, ため, という状況, でして
RepeatableFragments ==
    { <<12373, 12379, 12390, 12356, 12383, 12384, 12365, 12414, 12377>>,
      <<12356, 12383, 12375, 12414, 12377>>, <<12372, 12374, 12356, 12414, 12377>>,
      <<12383, 12417>>, <<12392, 12356, 12358, 29366, 27841>>, <<12391, 12375, 12390>> }

\* C24: the text the local cleanup returns for a filled template holds none
\* of the verb endings and particles twice in a row.
C24_NoImmediateRepetition ==
    LocalTextDone =>
        \A fragment \in RepeatableFragments :
            ~Contains(state.tatemae_text, fragment \o fragment)

\* The refinement node has taken its text from a response of the backend.
RemoteTextDone ==
    /\ pc = "end"
    /\ Len(calls) > 0
    /\ calls[Len(calls)].node = "politeness_tuner"
    /\ ~calls[Len(calls)].outcome.raises
    /\ calls[Len(calls)].outcome.content # None

\* C23: whatever the backend answered, and however many kinds of quotation
\* marks it wrapped its answer in, the text the refinement node returns
\* neither begins nor ends with one of the marks ", ', 「, 」.
C23_NoQuotationMarkAtEitherEnd ==
    RemoteTextDone =>
        LET tatemae_text == state.tatemae_text
        IN  tatemae_text # <<>> =>
                /\ tatemae_text[1] \notin {34, 39, 12300, 12301}
                /\ tatemae_text[Len(tatemae_text)] \notin {34, 39, 12300, 12301}

\* The template list the generator is to draw from for an intent.
ListOfIntent(intent) ==
    LET key == IF InList(intent, INTENT_CATEGORIES) THEN intent ELSE neutral_polite
    IN  UNION {{TEMPLATES[i].templates[j] : j \in 1..Len(TEMPLATES[i].templates)} :
                  i \in {k \in 1..Len(TEMPLATES) : TEMPLATES[k].intent = key}}

\* C25: for any intent value the template generator returns a result, and
\* the template it returns is a member of the list of the intent when the
\* intent is one of the six categories, of the neutral_polite list otherwise.
C25_TemplateFromIntentList ==
    /\ pc = "tatemae_generator" => tatemae_generator_node(state) # {}
    /\ trace = <<"tatemae_generator">> => state.template \in ListOfIntent(state.intent)

C25_Witness ==
    /\ trace = <<"tatemae_generator">>
    /\ ~InList(state.intent, INTENT_CATEGORIES)
    /\ state.template \in ListOfIntent(neutral_polite)
    /\ state.template \notin ListOfIntent(refusal)

\* The stages in the order the workflow is to run them.
StageOrder ==
    <<"language_detector", "intent_detector", "tatemae_generator", "politeness_tuner">>

\* C26: the stages an accepted request has run are an initial part of
\* language detection, intent detection, template generation, refinement,
\* each at most once; the stage to run next is the one after those that have
\* finished; and a completed result is returned only when all four have run.
C26_StagesOnceInOrder ==
    /\ Len(trace) <= Len(StageOrder)
    /\ \A i \in 1..Len(trace) : trace[i] = StageOrder[i]
    /\ InList(pc, StageOrder) => pc = StageOrder[Len(trace) + 1]
    /\ pc = "end" => trace = StageOrder
    /\ Completed => trace = StageOrder

C26_Witness ==
    /\ Completed
    /\ trace = StageOrder
    /\ Len(calls) = 2

\* The fields each stage may write.
OwnFields(stage) ==
    IF stage = "language_detector" THEN {"detected_language"}
    ELSE IF stage = "intent_detector" THEN {"intent", "confidence"}
    ELSE IF stage = "tatemae_generator" THEN {"template", "filled_template"}
    ELSE {"tatemae_text"}

\* A stage has just run: the step appended its name to the trace.
StageStep ==
    /\ Len(trace') = Len(trace) + 1
    /\ \A i \in 1..Len(trace) : trace'[i] = trace[i]

\* C27: a stage of the pipeline leaves every field of the state that is not
\* one of its own output fields as it was, input_text, level and context
\* among them, so the filled template the generator wrote is still there
\* when the refinement stage has run.
C27_StagesWriteOwnFields ==
    [][StageStep =>
          /\ DOMAIN state \subseteq DOMAIN state'
          /\ \A field \in DOMAIN state \ OwnFields(trace'[Len(trace')]) :
                state'[field] = state[field]]_vars

\* The refinement stage has replaced the text by the backend's and the filled
\* template the generator wrote is not the text returned.
C27_Witness ==
    /\ pc = "end"
    /\ trace = StageOrder
    /\ state.filled_template # None
    /\ state.tatemae_text # state.filled_template
    /\ state.input_text = args.input_text

\* No verb ending and no particle stands twice in a row in the text.
NothingRepeated(text) ==
    \A fragment \in RepeatableFragments : ~Contains(text, fragment \o fragment)

\* C30: refine_text of the fallback provider returns a text in which no
\* fragment is immediately repeated unchanged, also when two different
\* particles stand next to each other in it, as in ためでして.
C30_UnrepeatedTextUnchanged ==
    (args.op = "refine_text" /\ Len(trace) >= 1 /\ NothingRepeated(args.filled_template))
        => trace[1] = args.filled_template

\* The backend attempts a translate call has made.
BackendAttempts == Len(calls)

AloneLanguage(r) ==
    language_detector_node([input_text |-> RequestCalls[r].input_text]).detected_language

AloneIntent(r) ==
    LET backend == IF calls[r] = <<>> THEN BackendRaises ELSE calls[r][1].outcome
    IN  intent_detector_node([input_text |-> RequestCalls[r].input_text],
                             api_key, backend).intent

\* The step is a step of request r.
StepOf(r) == pc'[r] # pc[r]

\* C29: in every interleaving of the stages of two requests, a step of one
\* request leaves the state, the arguments, the backend calls and the result
\* of the other as they were and the provider's configuration unchanged,
\* and a request that has returned has the intent, the level, the context
\* and the detected language it gets when it runs alone.
C29_RequestsDoNotInterfere ==
    /\ [][\A r \in Requests : StepOf(r) =>
              /\ api_key' = api_key
              /\ \A q \in Requests \ {r} :
                    /\ state'[q] = state[q]
                    /\ args'[q] = args[q]
                    /\ calls'[q] = calls[q]
                    /\ result'[q] = result[q]
                    /\ pc'[q] = pc[q]]_vars
    /\ [](\A r \in Requests : pc[r] = "returned" =>
              /\ result[r].detected_language = AloneLanguage(r)
              /\ result[r].intent = AloneIntent(r)
              /\ result[r].level = ValidatedLevel(RequestCalls[r].level)
              /\ result[r].context = ValidatedContext(RequestCalls[r].context))

\* The second request has returned while the first, started before it ended,
\* is between two of its stages, and the two differ in language and intent.
C29_Witness ==
    /\ pc[1] = "politeness_tuner"
    /\ pc[2] = "returned"
    /\ state[1].detected_language = en
    /\ result[2].detected_language = ja
    /\ state[1].intent = criticism
    /\ result[2].intent = neutral_polite
    /\ result[2].level = business

====
